---- MODULE Spec2Model ----
(***************************************************************************)
(* Verification model of the jismesh crate (JIS X0410 regional mesh        *)
(* codes): level inference (to_meshlevel), the encoder (to_meshcode), the  *)
(* decoder (to_meshpoint) and the MeshCode value type.                     *)
(*                                                                         *)
(* Representation.                                                         *)
(*  - A u64 mesh code is the pair <<hi, lo>> with value hi * LIMB + lo,    *)
(*    0 <= lo < LIMB, because the codes (up to 11 decimal digits and       *)
(*    beyond) exceed the integers of the model checker.  Pairs are kept    *)
(*    normalised, so equality of pairs is equality of values.              *)
(*  - An f64 latitude is an integer number of 1/9600 degree and an f64     *)
(*    longitude an integer number of 1/6400 degree, so that the Lv1 unit   *)
(*    (2/3 degree, 1 degree) is 6400 grid steps on both axes, every unit   *)
(*    of the 14 levels is a whole number of steps (Lv6 = 10), and the      *)
(*    domain limits 66.66 and 180 fall on grid points.  Arithmetic on the  *)
(*    grid is exact: f64 rounding is not modelled.  A coordinate between   *)
(*    two grid points is encoded like the grid point below it.             *)
(*  - A multiplier m stands for m / MULT_DEN: HALF is 0.5, ONE is 1.0.     *)
(***************************************************************************)
EXTENDS Integers, Sequences, FiniteSets, TLC

VARIABLES pc, op, meshcode, lat, lon, level, lat_multiplier, lon_multiplier,
          result, self

vars == <<pc, op, meshcode, lat, lon, level, lat_multiplier, lon_multiplier,
          result, self>>

-----------------------------------------------------------------------------
(* u64 arithmetic on <<hi, lo>> pairs *)

LIMB == 1000000

LIMB_DIGITS == 6

RECURSIVE Pow10(_)
Pow10(p) == IF p = 0 THEN 1 ELSE 10 * Pow10(p - 1)

U64(n) == <<n \div LIMB, n % LIMB>>

ZERO == U64(0)

\* x * m + d for a small multiplier m (10, 100, 1000) and a small addend d
MulAdd(x, m, d) ==
    LET t == x[2] * m + d
    IN  <<x[1] * m + t \div LIMB, t % LIMB>>

\* x / 10^p (integer division)
DivPow10(x, p) ==
    IF p <= LIMB_DIGITS
    THEN <<x[1] \div Pow10(p),
           (x[1] % Pow10(p)) * Pow10(LIMB_DIGITS - p) + x[2] \div Pow10(p)>>
    ELSE U64(x[1] \div Pow10(p - LIMB_DIGITS))

\* x % 10^p
ModPow10(x, p) ==
    IF p <= LIMB_DIGITS
    THEN <<0, x[2] % Pow10(p)>>
    ELSE <<x[1] % Pow10(p - LIMB_DIGITS), x[2]>>

\* the value of a pair that is known to be small
ToInt(x) == x[1] * LIMB + x[2]

RECURSIVE IntDigits(_)
IntDigits(n) == IF n < 10 THEN 1 ELSE 1 + IntDigits(n \div 10)

\* (t as f64).log10().floor() as u32 + 1; log10(0) is -inf and casts to 0
NumDigits(t) ==
    IF t = ZERO THEN 1
    ELSE IF t[1] > 0 THEN LIMB_DIGITS + IntDigits(t[1]) ELSE IntDigits(t[2])

\* the code with the decimal digits ds (most significant first)
RECURSIVE FromDigits(_)
FromDigits(ds) ==
    IF ds = <<>> THEN ZERO
    ELSE MulAdd(FromDigits(SubSeq(ds, 1, Len(ds) - 1)), 10, ds[Len(ds)])

-----------------------------------------------------------------------------
(* MeshLevel *)

MeshLevel == {"Lv1", "X40", "X20", "X16", "Lv2", "X8", "X5", "X4", "X2_5",
              "X2", "Lv3", "Lv4", "Lv5", "Lv6"}

\* the explicit discriminants of the enum; the derived Ord compares them
Discriminant(l) ==
    CASE l = "Lv1"  -> 1
      [] l = "X40"  -> 40000
      [] l = "X20"  -> 20000
      [] l = "X16"  -> 16000
      [] l = "Lv2"  -> 2
      [] l = "X8"   -> 8000
      [] l = "X5"   -> 5000
      [] l = "X4"   -> 4000
      [] l = "X2_5" -> 2500
      [] l = "X2"   -> 2000
      [] l = "Lv3"  -> 3
      [] l = "Lv4"  -> 4
      [] l = "Lv5"  -> 5
      [] l = "Lv6"  -> 6

LevelGt(a, b) == Discriminant(a) > Discriminant(b)

LevelLt(a, b) == Discriminant(a) < Discriminant(b)

-----------------------------------------------------------------------------
(* unit sizes, in grid steps *)

UNIT_LAT_LV1 == 6400
UNIT_LON_LV1 == 6400
UNIT_LAT_40000 == UNIT_LAT_LV1 \div 2
UNIT_LON_40000 == UNIT_LON_LV1 \div 2
UNIT_LAT_20000 == UNIT_LAT_40000 \div 2
UNIT_LON_20000 == UNIT_LON_40000 \div 2
UNIT_LAT_16000 == UNIT_LAT_LV1 \div 5
UNIT_LON_16000 == UNIT_LON_LV1 \div 5
UNIT_LAT_LV2 == UNIT_LAT_LV1 \div 8
UNIT_LON_LV2 == UNIT_LON_LV1 \div 8
UNIT_LAT_8000 == UNIT_LAT_LV1 \div 10
UNIT_LON_8000 == UNIT_LON_LV1 \div 10
UNIT_LAT_5000 == UNIT_LAT_LV2 \div 2
UNIT_LON_5000 == UNIT_LON_LV2 \div 2
UNIT_LAT_4000 == UNIT_LAT_8000 \div 2
UNIT_LON_4000 == UNIT_LON_8000 \div 2
UNIT_LAT_2500 == UNIT_LAT_5000 \div 2
UNIT_LON_2500 == UNIT_LON_5000 \div 2
UNIT_LAT_2000 == UNIT_LAT_LV2 \div 5
UNIT_LON_2000 == UNIT_LON_LV2 \div 5
UNIT_LAT_LV3 == UNIT_LAT_LV2 \div 10
UNIT_LON_LV3 == UNIT_LON_LV2 \div 10
UNIT_LAT_LV4 == UNIT_LAT_LV3 \div 2
UNIT_LON_LV4 == UNIT_LON_LV3 \div 2
UNIT_LAT_LV5 == UNIT_LAT_LV4 \div 2
UNIT_LON_LV5 == UNIT_LON_LV4 \div 2
UNIT_LAT_LV6 == UNIT_LAT_LV5 \div 2
UNIT_LON_LV6 == UNIT_LON_LV5 \div 2

unit_lat_lon(l) ==
    CASE l = "Lv1"  -> <<UNIT_LAT_LV1, UNIT_LON_LV1>>
      [] l = "X40"  -> <<UNIT_LAT_40000, UNIT_LON_40000>>
      [] l = "X20"  -> <<UNIT_LAT_20000, UNIT_LON_20000>>
      [] l = "X16"  -> <<UNIT_LAT_16000, UNIT_LON_16000>>
      [] l = "Lv2"  -> <<UNIT_LAT_LV2, UNIT_LON_LV2>>
      [] l = "X8"   -> <<UNIT_LAT_8000, UNIT_LON_8000>>
      [] l = "X5"   -> <<UNIT_LAT_5000, UNIT_LON_5000>>
      [] l = "X4"   -> <<UNIT_LAT_4000, UNIT_LON_4000>>
      [] l = "X2_5" -> <<UNIT_LAT_2500, UNIT_LON_2500>>
      [] l = "X2"   -> <<UNIT_LAT_2000, UNIT_LON_2000>>
      [] l = "Lv3"  -> <<UNIT_LAT_LV3, UNIT_LON_LV3>>
      [] l = "Lv4"  -> <<UNIT_LAT_LV4, UNIT_LON_LV4>>
      [] l = "Lv5"  -> <<UNIT_LAT_LV5, UNIT_LON_LV5>>
      [] l = "Lv6"  -> <<UNIT_LAT_LV6, UNIT_LON_LV6>>

unit_lat(l) == unit_lat_lon(l)[1]

unit_lon(l) == unit_lat_lon(l)[2]

-----------------------------------------------------------------------------
(* digit extraction *)

\* slice reading one digit too far to the left (start - 1 .. stop - 1)
slice_left(t, start, stop) ==
    LET num_digits == NumDigits(t)
    IN  IF num_digits < stop THEN 0
        ELSE ToInt(DivPow10(ModPow10(t, num_digits - start + 1),
                            num_digits - stop + 1)) % 256

\* slice with `num_digits <= stop` for `num_digits < stop`
slice_short(t, start, stop) ==
    LET num_digits == NumDigits(t)
    IN  IF num_digits <= stop THEN 0
        ELSE ToInt(DivPow10(ModPow10(t, num_digits - start),
                            num_digits - stop)) % 256

\* the decimal digits start..stop-1 (0 = most significant) of t, as u8
slice(t, start, stop) ==
    LET num_digits == NumDigits(t)
    IN  IF num_digits < stop THEN 0
        ELSE ToInt(DivPow10(ModPow10(t, num_digits - start),
                            num_digits - stop)) % 256

-----------------------------------------------------------------------------
(* results *)

Ok(v) == [tag |-> "Ok", val |-> v, err |-> <<>>]

Err(e) == [tag |-> "Err", val |-> <<>>, err |-> e]

Panic == [tag |-> "Panic", val |-> <<>>, err |-> <<>>]

NoResult == [tag |-> "None", val |-> <<>>, err |-> <<>>]

UnknownMeshLevelForCode(c) == <<"UnknownMeshLevelForCode", c>>

InvalidMeshcodeAtLevel(n, c) == <<"InvalidMeshcodeAtLevel", n, c>>

LatitudeOutOfBounds(v) == <<"LatitudeOutOfBounds", v>>

LongitudeOutOfBounds(v) == <<"LongitudeOutOfBounds", v>>

InvalidMeshLevelForLowerLevel(a, b) == <<"InvalidMeshLevelForLowerLevel", a, b>>

UnsupportedMeshLevelConversion(a, b) == <<"UnsupportedMeshLevelConversion", a, b>>

-----------------------------------------------------------------------------
(* level inference *)

\* the match on num_digits[idx] of to_meshlevel, for one code
level_of(code) ==
    LET n == NumDigits(code)
        g == slice(code, 6, 7)
        i == slice(code, 8, 9)
        j == slice(code, 9, 10)
        k == slice(code, 10, 11)
    IN  CASE n = 4 -> Ok("Lv1")
          [] n = 5 -> Ok("X40")
          [] n = 6 -> Ok("Lv2")
          [] n = 7 -> (CASE g \in 1..4 -> Ok("X5")
                         [] g = 5 -> Ok("X20")
                         [] g = 6 -> Ok("X8")
                         [] g = 7 -> Ok("X16")
                         [] OTHER -> Err(InvalidMeshcodeAtLevel(7, code)))
          [] n = 8 -> Ok("Lv3")
          [] n = 9 -> (CASE i \in 1..4 -> Ok("Lv4")
                         [] i = 5 -> Ok("X2")
                         [] i = 6 -> Ok("X2_5")
                         [] i = 7 -> Ok("X4")
                         [] OTHER -> Err(InvalidMeshcodeAtLevel(9, code)))
          [] n = 10 -> (IF j \in 1..4 THEN Ok("Lv5")
                        ELSE Err(InvalidMeshcodeAtLevel(10, code)))
          [] n = 11 -> (IF k \in 1..4 THEN Ok("Lv6")
                        ELSE Err(InvalidMeshcodeAtLevel(11, code)))
          [] OTHER -> Err(UnknownMeshLevelForCode(code))

\* the for loop of to_meshlevel: stops at the first code without a level
RECURSIVE meshlevel_loop(_, _, _)
meshlevel_loop(codes, idx, results) ==
    IF idx > Len(codes) THEN Ok(results)
    ELSE LET r == level_of(codes[idx])
         IN  IF r.tag = "Err" THEN r
             ELSE meshlevel_loop(codes, idx + 1, Append(results, r.val))

to_meshlevel(codes) ==
    IF \E idx \in 1..Len(codes) : codes[idx] = ZERO
    THEN Err(UnknownMeshLevelForCode(ZERO))
    ELSE meshlevel_loop(codes, 1, <<>>)

-----------------------------------------------------------------------------
(* the encoder *)

\* 0.0 and 66.66 degrees of latitude, 100.0 and 180.0 degrees of longitude
LAT_MIN == 0
LAT_MAX == 639936
LON_MIN == 640000
LON_MAX == 1152000

\* the 100.0 of `lon % 100.0`
LON_BASE == 640000

Code(v, l) == [value |-> v, level |-> l]

\* quadrant without the `+ 1`: a digit in 0..3
quadrant_from_zero(rem_lat, rem_lon, u_lat, u_lon) ==
    (rem_lat \div u_lat) * 2 + (rem_lon \div u_lon)

\* quadrant with the two axes exchanged: quadrant_lon * 2 + quadrant_lat + 1
quadrant_swapped(rem_lat, rem_lon, u_lat, u_lon) ==
    (rem_lon \div u_lon) * 2 + (rem_lat \div u_lat) + 1

\* the digit quadrant_lat * 2 + quadrant_lon + 1 of a halved cell
quadrant(rem_lat, rem_lon, u_lat, u_lon) ==
    (rem_lat \div u_lat) * 2 + (rem_lon \div u_lon) + 1

\* meshcode_lv1 without the `% 100.0` of the longitude: cd is 100 or more
meshcode_lv1_no_rem(la, lo) ==
    LET ab == la \div UNIT_LAT_LV1
        cd == lo \div UNIT_LON_LV1
    IN  Code(U64(ab * 100 + cd), "Lv1")

meshcode_lv1(la, lo) ==
    LET rem_lat_lv0 == la
        rem_lon_lv0 == lo % LON_BASE
        ab == rem_lat_lv0 \div UNIT_LAT_LV1
        cd == rem_lon_lv0 \div UNIT_LON_LV1
    IN  Code(U64(ab * 100 + cd), "Lv1")

meshcode_40000(la, lo) ==
    LET base == meshcode_lv1(la, lo).value
        rem_lat_lv1 == la % UNIT_LAT_LV1
        rem_lon_lv1 == (lo % LON_BASE) % UNIT_LON_LV1
        e == quadrant(rem_lat_lv1, rem_lon_lv1, UNIT_LAT_40000, UNIT_LON_40000)
    IN  Code(MulAdd(base, 10, e), "X40")

meshcode_20000(la, lo) ==
    LET base == meshcode_40000(la, lo)
        rem_lat_lv1 == la % UNIT_LAT_LV1
        rem_lon_lv1 == (lo % LON_BASE) % UNIT_LON_LV1
        rem_lat_40000 == rem_lat_lv1 % UNIT_LAT_40000
        rem_lon_40000 == rem_lon_lv1 % UNIT_LON_40000
        f == quadrant(rem_lat_40000, rem_lon_40000, UNIT_LAT_20000, UNIT_LON_20000)
        g == 5
    IN  Code(MulAdd(base.value, 100, f * 10 + g), "X20")

meshcode_16000(la, lo) ==
    LET base == meshcode_lv1(la, lo)
        rem_lat_lv1 == la % UNIT_LAT_LV1
        rem_lon_lv1 == (lo % LON_BASE) % UNIT_LON_LV1
        e == (rem_lat_lv1 \div UNIT_LAT_16000) * 2
        f == (rem_lon_lv1 \div UNIT_LON_16000) * 2
        g == 7
    IN  Code(MulAdd(base.value, 1000, e * 100 + f * 10 + g), "X16")

meshcode_lv2(la, lo) ==
    LET base == meshcode_lv1(la, lo)
        rem_lat_lv1 == la % UNIT_LAT_LV1
        rem_lon_lv1 == (lo % LON_BASE) % UNIT_LON_LV1
        e == rem_lat_lv1 \div UNIT_LAT_LV2
        f == rem_lon_lv1 \div UNIT_LON_LV2
    IN  Code(MulAdd(base.value, 100, e * 10 + f), "Lv2")

meshcode_8000(la, lo) ==
    LET base == meshcode_lv1(la, lo)
        rem_lat_lv1 == la % UNIT_LAT_LV1
        rem_lon_lv1 == (lo % LON_BASE) % UNIT_LON_LV1
        e == rem_lat_lv1 \div UNIT_LAT_8000
        f == rem_lon_lv1 \div UNIT_LON_8000
        g == 6
    IN  Code(MulAdd(base.value, 1000, e * 100 + f * 10 + g), "X8")

meshcode_5000(la, lo) ==
    LET base == meshcode_lv2(la, lo)
        rem_lat_lv2 == (la % UNIT_LAT_LV1) % UNIT_LAT_LV2
        rem_lon_lv2 == ((lo % LON_BASE) % UNIT_LON_LV1) % UNIT_LON_LV2
        g == quadrant(rem_lat_lv2, rem_lon_lv2, UNIT_LAT_5000, UNIT_LON_5000)
    IN  Code(MulAdd(base.value, 10, g), "X5")

meshcode_4000(la, lo) ==
    LET base == meshcode_8000(la, lo)
        rem_lat_lv1 == la % UNIT_LAT_LV1
        rem_lon_lv1 == (lo % LON_BASE) % UNIT_LON_LV1
        rem_lat_8000 == rem_lat_lv1 % UNIT_LAT_8000
        rem_lon_8000 == rem_lon_lv1 % UNIT_LON_8000
        h == quadrant(rem_lat_8000, rem_lon_8000, UNIT_LAT_4000, UNIT_LON_4000)
        i == 7
    IN  Code(MulAdd(base.value, 100, h * 10 + i), "X4")

meshcode_2500(la, lo) ==
    LET base == meshcode_5000(la, lo)
        rem_lat_lv2 == (la % UNIT_LAT_LV1) % UNIT_LAT_LV2
        rem_lon_lv2 == ((lo % LON_BASE) % UNIT_LON_LV1) % UNIT_LON_LV2
        rem_lat_5000 == rem_lat_lv2 % UNIT_LAT_5000
        rem_lon_5000 == rem_lon_lv2 % UNIT_LON_5000
        h == quadrant(rem_lat_5000, rem_lon_5000, UNIT_LAT_2500, UNIT_LON_2500)
        i == 6
    IN  Code(MulAdd(base.value, 100, h * 10 + i), "X2_5")

meshcode_2000(la, lo) ==
    LET base == meshcode_lv2(la, lo)
        rem_lat_lv2 == (la % UNIT_LAT_LV1) % UNIT_LAT_LV2
        rem_lon_lv2 == ((lo % LON_BASE) % UNIT_LON_LV1) % UNIT_LON_LV2
        g == (rem_lat_lv2 \div UNIT_LAT_2000) * 2
        h == (rem_lon_lv2 \div UNIT_LON_2000) * 2
        i == 5
    IN  Code(MulAdd(base.value, 1000, g * 100 + h * 10 + i), "X2")

meshcode_lv3(la, lo) ==
    LET base == meshcode_lv2(la, lo)
        rem_lat_lv2 == (la % UNIT_LAT_LV1) % UNIT_LAT_LV2
        rem_lon_lv2 == ((lo % LON_BASE) % UNIT_LON_LV1) % UNIT_LON_LV2
        g == rem_lat_lv2 \div UNIT_LAT_LV3
        h == rem_lon_lv2 \div UNIT_LON_LV3
    IN  Code(MulAdd(base.value, 100, g * 10 + h), "Lv3")

meshcode_lv4(la, lo) ==
    LET base == meshcode_lv3(la, lo)
        rem_lat_lv3 == ((la % UNIT_LAT_LV1) % UNIT_LAT_LV2) % UNIT_LAT_LV3
        rem_lon_lv3 == (((lo % LON_BASE) % UNIT_LON_LV1) % UNIT_LON_LV2) % UNIT_LON_LV3
        i == quadrant(rem_lat_lv3, rem_lon_lv3, UNIT_LAT_LV4, UNIT_LON_LV4)
    IN  Code(MulAdd(base.value, 10, i), "Lv4")

meshcode_lv5(la, lo) ==
    LET base == meshcode_lv4(la, lo)
        rem_lat_lv4 == (((la % UNIT_LAT_LV1) % UNIT_LAT_LV2) % UNIT_LAT_LV3) % UNIT_LAT_LV4
        rem_lon_lv4 == ((((lo % LON_BASE) % UNIT_LON_LV1) % UNIT_LON_LV2) % UNIT_LON_LV3)
                           % UNIT_LON_LV4
        j == quadrant(rem_lat_lv4, rem_lon_lv4, UNIT_LAT_LV5, UNIT_LON_LV5)
    IN  Code(MulAdd(base.value, 10, j), "Lv5")

meshcode_lv6(la, lo) ==
    LET base == meshcode_lv5(la, lo)
        rem_lat_lv5 == ((((la % UNIT_LAT_LV1) % UNIT_LAT_LV2) % UNIT_LAT_LV3) % UNIT_LAT_LV4)
                           % UNIT_LAT_LV5
        rem_lon_lv5 == (((((lo % LON_BASE) % UNIT_LON_LV1) % UNIT_LON_LV2) % UNIT_LON_LV3)
                           % UNIT_LON_LV4) % UNIT_LON_LV5
        k == quadrant(rem_lat_lv5, rem_lon_lv5, UNIT_LAT_LV6, UNIT_LON_LV6)
    IN  Code(MulAdd(base.value, 10, k), "Lv6")

\* the match on level of to_meshcode
meshcode_at(l, la, lo) ==
    CASE l = "Lv1"  -> meshcode_lv1(la, lo)
      [] l = "X40"  -> meshcode_40000(la, lo)
      [] l = "X20"  -> meshcode_20000(la, lo)
      [] l = "X16"  -> meshcode_16000(la, lo)
      [] l = "Lv2"  -> meshcode_lv2(la, lo)
      [] l = "X8"   -> meshcode_8000(la, lo)
      [] l = "X5"   -> meshcode_5000(la, lo)
      [] l = "X4"   -> meshcode_4000(la, lo)
      [] l = "X2_5" -> meshcode_2500(la, lo)
      [] l = "X2"   -> meshcode_2000(la, lo)
      [] l = "Lv3"  -> meshcode_lv3(la, lo)
      [] l = "Lv4"  -> meshcode_lv4(la, lo)
      [] l = "Lv5"  -> meshcode_lv5(la, lo)
      [] l = "Lv6"  -> meshcode_lv6(la, lo)

\* the closed range (0.0..=66.66)
lat_in_bounds_closed(v) == LAT_MIN <= v /\ v <= LAT_MAX

\* (0.0..66.66).contains(&v) and (100.0..180.0).contains(&v)
lat_in_bounds(v) == LAT_MIN <= v /\ v < LAT_MAX

lon_in_bounds(v) == LON_MIN <= v /\ v < LON_MAX

Max(a, b) == IF a > b THEN a ELSE b

Min(a, b) == IF a < b THEN a ELSE b

MinOf(S) == CHOOSE x \in S : \A y \in S : x <= y

\* always the first element: lat[0]
wrap_index_first(xs, i) == xs[1]

\* lat[i % lat.len()], for the 1-based index i
wrap_index(xs, i) == xs[((i - 1) % Len(xs)) + 1]

to_meshcode(lats, lons, l) ==
    LET bad_lat == {i \in 1..Len(lats) : ~lat_in_bounds(lats[i])}
        bad_lon == {i \in 1..Len(lons) : ~lon_in_bounds(lons[i])}
        result_len == Max(Len(lats), Len(lons))
    IN  IF bad_lat # {} THEN Err(LatitudeOutOfBounds(lats[MinOf(bad_lat)]))
        ELSE IF bad_lon # {} THEN Err(LongitudeOutOfBounds(lons[MinOf(bad_lon)]))
        ELSE IF result_len > 0 /\ (Len(lats) = 0 \/ Len(lons) = 0) THEN Panic
        ELSE Ok([i \in 1..result_len |->
                    meshcode_at(l, wrap_index(lats, i), wrap_index(lons, i))])

-----------------------------------------------------------------------------
(* the decoder; a point is the pair <<lat, lon>> *)

\* the denominator of the multipliers: a multiplier m stands for m / MULT_DEN;
\* twice the Lv1 unit, so that half the ratio of any two units is a multiplier
MULT_DEN == 12800

\* the multipliers 0.5 and 1.0
HALF == MULT_DEN \div 2
ONE == MULT_DEN

\* apply_base_adjustment without the `+ 100.0` of the longitude
apply_base_adjustment_no_base(ab, cd) ==
    <<ab * UNIT_LAT_LV1, cd * UNIT_LON_LV1>>

apply_base_adjustment(ab, cd) ==
    <<ab * UNIT_LAT_LV1, cd * UNIT_LON_LV1 + LON_BASE>>

\* the two ifs that undo a quadrant digit d over a cell halved to (u_lat, u_lon)
apply_quadrant(d, u_lat, u_lon, p) ==
    <<p[1] + (IF d \div 3 = 1 THEN u_lat ELSE 0),
      p[2] + (IF d % 2 = 0 THEN u_lon ELSE 0)>>

apply_level_40000(e, p) == apply_quadrant(e, UNIT_LAT_40000, UNIT_LON_40000, p)

apply_level_2(e, f, p) == <<p[1] + e * UNIT_LAT_LV2, p[2] + f * UNIT_LON_LV2>>

apply_level_3(e, f, g, h, p) ==
    LET q == apply_level_2(e, f, p)
    IN  <<q[1] + g * UNIT_LAT_LV3, q[2] + h * UNIT_LON_LV3>>

apply_level_4(e, f, g, h, i, p) ==
    apply_quadrant(i, UNIT_LAT_LV4, UNIT_LON_LV4, apply_level_3(e, f, g, h, p))

apply_level_5(e, f, g, h, i, j, p) ==
    apply_quadrant(j, UNIT_LAT_LV5, UNIT_LON_LV5, apply_level_4(e, f, g, h, i, p))

\* apply_multipliers with the two multiplier lists exchanged
apply_multipliers_swapped(idx, l, lat_mult, lon_mult, p) ==
    <<p[1] + (unit_lat(l) * lon_mult[Min(idx, Len(lon_mult))]) \div MULT_DEN,
      p[2] + (unit_lon(l) * lat_mult[Min(idx, Len(lat_mult))]) \div MULT_DEN>>

\* lat[idx] += unit_lat(level) * lat_multiplier[idx.min(len - 1)], idx 1-based
apply_multipliers(idx, l, lat_mult, lon_mult, p) ==
    <<p[1] + (unit_lat(l) * lat_mult[Min(idx, Len(lat_mult))]) \div MULT_DEN,
      p[2] + (unit_lon(l) * lon_mult[Min(idx, Len(lon_mult))]) \div MULT_DEN>>

\* the body of the loop of to_meshpoint before the multipliers: the
\* south-west corner of the cell of code at level l
meshpoint_sw(code, l) ==
    LET ab == slice(code, 0, 2)
        cd == slice(code, 2, 4)
        e == slice(code, 4, 5)
        f == slice(code, 5, 6)
        g == slice(code, 6, 7)
        h == slice(code, 7, 8)
        i == slice(code, 8, 9)
        j == slice(code, 9, 10)
        k == slice(code, 10, 11)
        p == apply_base_adjustment(ab, cd)
    IN  CASE l = "Lv1"  -> p
          [] l = "X40"  -> apply_level_40000(e, p)
          [] l = "X20"  -> apply_quadrant(f, UNIT_LAT_20000, UNIT_LON_20000,
                                          apply_level_40000(e, p))
          [] l = "X16"  -> <<p[1] + (e \div 2) * UNIT_LAT_16000,
                             p[2] + (f \div 2) * UNIT_LON_16000>>
          [] l = "X8"   -> <<p[1] + e * UNIT_LAT_8000, p[2] + f * UNIT_LON_8000>>
          [] l = "X4"   -> apply_quadrant(h, UNIT_LAT_4000, UNIT_LON_4000,
                               <<p[1] + e * UNIT_LAT_8000, p[2] + f * UNIT_LON_8000>>)
          [] l = "Lv2"  -> apply_level_2(e, f, p)
          [] l = "X5"   -> apply_quadrant(g, UNIT_LAT_5000, UNIT_LON_5000,
                                          apply_level_2(e, f, p))
          [] l = "X2_5" -> apply_quadrant(h, UNIT_LAT_2500, UNIT_LON_2500,
                               apply_quadrant(g, UNIT_LAT_5000, UNIT_LON_5000,
                                              apply_level_2(e, f, p)))
          [] l = "X2"   -> LET q == apply_level_2(e, f, p)
                           IN  <<q[1] + (g \div 2) * UNIT_LAT_2000,
                                 q[2] + (h \div 2) * UNIT_LON_2000>>
          [] l = "Lv3"  -> apply_level_3(e, f, g, h, p)
          [] l = "Lv4"  -> apply_level_4(e, f, g, h, i, p)
          [] l = "Lv5"  -> apply_level_5(e, f, g, h, i, j, p)
          [] l = "Lv6"  -> apply_quadrant(k, UNIT_LAT_LV6, UNIT_LON_LV6,
                                          apply_level_5(e, f, g, h, i, j, p))

\* to_meshpoint that also refuses a code whose Lv2 digits e, f exceed 7
to_meshpoint_validating(codes, lat_mult, lon_mult) ==
    LET lv == to_meshlevel(codes)
        bad == {idx \in 1..Len(codes) :
                   slice(codes[idx], 4, 5) > 7 \/ slice(codes[idx], 5, 6) > 7}
    IN  IF lv.tag = "Err" THEN lv
        ELSE IF bad # {} THEN Err(InvalidMeshcodeAtLevel(6, codes[MinOf(bad)]))
        ELSE IF Len(codes) > 0 /\ (Len(lat_mult) = 0 \/ Len(lon_mult) = 0) THEN Panic
        ELSE LET pt(idx) == apply_multipliers(idx, lv.val[idx], lat_mult, lon_mult,
                                              meshpoint_sw(codes[idx], lv.val[idx]))
             IN  Ok(<<[idx \in 1..Len(codes) |-> pt(idx)[1]],
                      [idx \in 1..Len(codes) |-> pt(idx)[2]]>>)

\* Ok(<<lats, lons>>): row 1 the latitudes, row 2 the longitudes
to_meshpoint(codes, lat_mult, lon_mult) ==
    LET lv == to_meshlevel(codes)
    IN  IF lv.tag = "Err" THEN lv
        ELSE IF Len(codes) > 0 /\ (Len(lat_mult) = 0 \/ Len(lon_mult) = 0) THEN Panic
        ELSE LET pt(idx) == apply_multipliers(idx, lv.val[idx], lat_mult, lon_mult,
                                              meshpoint_sw(codes[idx], lv.val[idx]))
             IN  Ok(<<[idx \in 1..Len(codes) |-> pt(idx)[1]],
                      [idx \in 1..Len(codes) |-> pt(idx)[2]]>>)

-----------------------------------------------------------------------------
(* MeshCode *)

try_from(value) ==
    LET lv == to_meshlevel(<<value>>)
    IN  IF lv.tag = "Err" THEN lv
        ELSE IF lv.val = <<>> THEN Err(UnknownMeshLevelForCode(value))
        ELSE Ok(Code(value, lv.val[1]))

\* lower_level that takes one hop (a division by 100) from Lv3 to Lv1
lower_level_one_hop(mc, l) ==
    IF LevelGt(l, mc.level)
    THEN Err(InvalidMeshLevelForLowerLevel(mc.level, l))
    ELSE CASE mc.level = l -> Ok(Code(mc.value, l))
           [] mc.level = "Lv3" /\ l = "Lv2" -> Ok(Code(DivPow10(mc.value, 2), l))
           [] mc.level = "Lv2" /\ l = "Lv1" -> Ok(Code(DivPow10(mc.value, 2), l))
           [] mc.level = "Lv3" /\ l = "Lv1" -> Ok(Code(DivPow10(mc.value, 2), l))
           [] OTHER -> Err(UnsupportedMeshLevelConversion(mc.level, l))

\* lower_level that drops one digit per hop instead of a digit pair
lower_level_one_digit(mc, l) ==
    IF LevelGt(l, mc.level)
    THEN Err(InvalidMeshLevelForLowerLevel(mc.level, l))
    ELSE CASE mc.level = l -> Ok(Code(mc.value, l))
           [] mc.level = "Lv3" /\ l = "Lv2" -> Ok(Code(DivPow10(mc.value, 1), l))
           [] mc.level = "Lv2" /\ l = "Lv1" -> Ok(Code(DivPow10(mc.value, 1), l))
           [] mc.level = "Lv3" /\ l = "Lv1" -> Ok(Code(DivPow10(mc.value, 2), l))
           [] OTHER -> Err(UnsupportedMeshLevelConversion(mc.level, l))

lower_level(mc, l) ==
    IF LevelGt(l, mc.level)
    THEN Err(InvalidMeshLevelForLowerLevel(mc.level, l))
    ELSE CASE mc.level = l -> Ok(Code(mc.value, l))
           [] mc.level = "Lv3" /\ l = "Lv2" -> Ok(Code(DivPow10(mc.value, 2), l))
           [] mc.level = "Lv2" /\ l = "Lv1" -> Ok(Code(DivPow10(mc.value, 2), l))
           [] mc.level = "Lv3" /\ l = "Lv1" -> Ok(Code(DivPow10(mc.value, 4), l))
           [] OTHER -> Err(UnsupportedMeshLevelConversion(mc.level, l))

\* Ok(<<lat, lon>>)
point(mc, lat_mult, lon_mult) ==
    LET points == to_meshpoint(<<mc.value>>, <<lat_mult>>, <<lon_mult>>)
    IN  IF points.tag # "Ok" THEN points
        ELSE Ok(<<points.val[1][1], points.val[2][1]>>)

-----------------------------------------------------------------------------
(* inputs *)

\* the longest code, in decimal digits
MaxDigits == 13

\* the longest list of a batched call
MaxBatch == 3

\* the decimal digits of a code of n digits: lead first, dl last, d7 seventh,
\* fill elsewhere
DigitSeq(n, lead, fill, d7, dl) ==
    [q \in 1..n |-> IF q = n THEN dl
                    ELSE IF q = 1 THEN lead
                    ELSE IF q = 7 THEN d7
                    ELSE fill]

LevelCodes ==
    {FromDigits(DigitSeq(n, lead, fill, d7, dl)) :
        n \in 1..MaxDigits, lead \in {1, 5}, fill \in {0, 3, 9},
        d7 \in 0..9, dl \in 0..9}

BatchCodes == {ZERO, U64(5), U64(5339), U64(5339008), U64(53393599),
               MulAdd(U64(53393599), 1000, 212)}

SeqsOf(S, n) == UNION {[1..m -> S] : m \in 0..n}

LevelInputs == {<<c>> : c \in LevelCodes} \cup SeqsOf(BatchCodes, MaxBatch)

NoCode == [value |-> ZERO, level |-> "None"]

-----------------------------------------------------------------------------
(* level inference of a list of codes *)

InitLevel ==
    /\ pc = "call"
    /\ op = "to_meshlevel"
    /\ meshcode \in LevelInputs
    /\ lat = <<>>
    /\ lon = <<>>
    /\ level = "Lv1"
    /\ lat_multiplier = <<>>
    /\ lon_multiplier = <<>>
    /\ result = NoResult
    /\ self = NoCode

CallToMeshlevel ==
    /\ pc = "call"
    /\ op = "to_meshlevel"
    /\ result' = to_meshlevel(meshcode)
    /\ pc' = "done"
    /\ UNCHANGED <<op, meshcode, lat, lon, level, lat_multiplier, lon_multiplier, self>>

NextLevel == CallToMeshlevel

SpecLevel == InitLevel /\ [][NextLevel]_vars

-----------------------------------------------------------------------------
(* decimal notation, for stating the claims *)

RECURSIVE IntToDigits(_)
IntToDigits(n) ==
    IF n < 10 THEN <<n>> ELSE Append(IntToDigits(n \div 10), n % 10)

\* the w low decimal digits of n, zero padded
PadDigits(n, w) == [q \in 1..w |-> (n \div Pow10(w - q)) % 10]

\* the decimal notation of a code, most significant digit first
DecimalDigits(c) ==
    IF c[1] = 0 THEN IntToDigits(c[2])
    ELSE IntToDigits(c[1]) \o PadDigits(c[2], LIMB_DIGITS)

\* the level that the digit count and the disambiguating digit fix
TableLevel(ds) ==
    LET n == Len(ds)
    IN  CASE n = 4 -> "Lv1"
          [] n = 5 -> "X40"
          [] n = 6 -> "Lv2"
          [] n = 8 -> "Lv3"
          [] n = 7 /\ ds[7] \in 1..4 -> "X5"
          [] n = 7 /\ ds[7] = 5 -> "X20"
          [] n = 7 /\ ds[7] = 6 -> "X8"
          [] n = 7 /\ ds[7] = 7 -> "X16"
          [] n = 9 /\ ds[9] \in 1..4 -> "Lv4"
          [] n = 9 /\ ds[9] = 5 -> "X2"
          [] n = 9 /\ ds[9] = 6 -> "X2_5"
          [] n = 9 /\ ds[9] = 7 -> "X4"
          [] n = 10 /\ ds[10] \in 1..4 -> "Lv5"
          [] n = 11 /\ ds[11] \in 1..4 -> "Lv6"
          [] OTHER -> "none"

SingleLevelDone ==
    pc = "done" /\ op = "to_meshlevel" /\ Len(meshcode) = 1

\* C1: a code whose level is inferred gets the level fixed by its decimal
\* digit count and its disambiguating digit (the 7th, 9th, 10th or 11th),
\* whatever its other digits are.
C1_LevelByDigits ==
    (SingleLevelDone /\ result.tag = "Ok")
        => result.val = <<TableLevel(DecimalDigits(meshcode[1]))>>

\* a 9-digit code ending in 6 was inferred to be X2_5
C1_Witness ==
    /\ SingleLevelDone
    /\ Len(DecimalDigits(meshcode[1])) = 9
    /\ DecimalDigits(meshcode[1])[9] = 6
    /\ DecimalDigits(meshcode[1])[2] = 9
    /\ result = Ok(<<"X2_5">>)

\* C2: the inference of a single code fails exactly for 0, for 1, 2, 3 or 12
\* and more digits (UnknownMeshLevelForCode), for 7 or 9 digits with the
\* disambiguating digit in {0, 8, 9} and for 10 or 11 digits with a last digit
\* outside 1..4 (InvalidMeshcodeAtLevel with the digit count); every other
\* code succeeds.
C2_LevelErrors ==
    SingleLevelDone =>
        LET c == meshcode[1]
            ds == DecimalDigits(c)
            n == Len(ds)
        IN  IF c = ZERO THEN result = Err(UnknownMeshLevelForCode(ZERO))
            ELSE IF n \in {1, 2, 3} \/ n >= 12
                 THEN result = Err(UnknownMeshLevelForCode(c))
            ELSE IF n \in {7, 9} /\ ds[n] \in {0, 8, 9}
                 THEN result = Err(InvalidMeshcodeAtLevel(n, c))
            ELSE IF n \in {10, 11} /\ ds[n] \notin 1..4
                 THEN result = Err(InvalidMeshcodeAtLevel(n, c))
            ELSE result.tag = "Ok"

\* an 11-digit code ending in 5 was refused with InvalidMeshcodeAtLevel(11, code)
C2_Witness ==
    /\ SingleLevelDone
    /\ Len(DecimalDigits(meshcode[1])) = 11
    /\ DecimalDigits(meshcode[1])[11] = 5
    /\ result = Err(InvalidMeshcodeAtLevel(11, meshcode[1]))

-----------------------------------------------------------------------------
(* the encoder on lists of coordinates *)

\* degrees (whole part, millionths) to grid steps
LatGrid(deg, micro) == deg * 9600 + (micro * 96) \div 10000

LonGrid(deg, micro) == deg * 6400 + (micro * 64) \div 10000

\* (35.658581, 139.745433) and (34.987574, 135.759363)
TOKYO_LAT == LatGrid(35, 658581)
TOKYO_LON == LonGrid(139, 745433)
KYOTO_LAT == LatGrid(34, 987574)
KYOTO_LON == LonGrid(135, 759363)

\* rows and columns of Lv1 cells, and offsets inside an Lv1 cell
LatRows == {0, 9, 10, 53, 99}

LonCols == {0, 39, 79}

CellOffsets == {0, 10, 25, 395, 400, 1275, 1280, 3199, 3200, 4845, 6335, 6399}

\* -0.1, just below 0, 66.66 and above; 99.99, just below 100, 180 and 0
LatOutside == {LatGrid(0, 0) - 960, LAT_MIN - 1, LAT_MAX, LAT_MAX + 64}

LonOutside == {LON_MIN - 64, LON_MIN - 1, LON_MAX, 0}

LatInputs ==
    {ab * UNIT_LAT_LV1 + o : ab \in LatRows, o \in CellOffsets}
        \cup {TOKYO_LAT, KYOTO_LAT} \cup LatOutside

LonInputs ==
    {LON_MIN + cd * UNIT_LON_LV1 + o : cd \in LonCols, o \in CellOffsets}
        \cup {TOKYO_LON, KYOTO_LON} \cup LonOutside

BatchLats == {TOKYO_LAT, KYOTO_LAT, LAT_MAX}

BatchLons == {TOKYO_LON, KYOTO_LON, LON_MIN - 1}

BatchLevels == {"Lv1", "X2_5", "Lv6"}

EncodeInputs ==
    {<<<<la>>, <<lo>>, l>> : la \in LatInputs, lo \in LonInputs, l \in MeshLevel}
        \cup (SeqsOf(BatchLats, MaxBatch) \X SeqsOf(BatchLons, MaxBatch) \X BatchLevels)

InitEncode ==
    /\ pc = "call"
    /\ op = "to_meshcode"
    /\ meshcode = <<>>
    /\ \E in \in EncodeInputs : lat = in[1] /\ lon = in[2] /\ level = in[3]
    /\ lat_multiplier = <<>>
    /\ lon_multiplier = <<>>
    /\ result = NoResult
    /\ self = NoCode

CallToMeshcode ==
    /\ pc = "call"
    /\ op = "to_meshcode"
    /\ result' = to_meshcode(lat, lon, level)
    /\ pc' = "done"
    /\ UNCHANGED <<op, meshcode, lat, lon, level, lat_multiplier, lon_multiplier, self>>

NextEncode == CallToMeshcode

SpecEncode == InitEncode /\ [][NextEncode]_vars

-----------------------------------------------------------------------------
(* claims about the encoder *)

EncodeDone == pc = "done" /\ op = "to_meshcode"

\* one point of the valid domain was encoded
SinglePointDone ==
    /\ EncodeDone
    /\ Len(lat) = 1 /\ Len(lon) = 1
    /\ LAT_MIN <= lat[1] /\ lat[1] < LAT_MAX
    /\ LON_MIN <= lon[1] /\ lon[1] < LON_MAX

\* the rectangle of code c contains the point (la, lo): both corners decode,
\* and south-west <= (la, lo) < north-east
RectangleContains(c, la, lo) ==
    LET sw == to_meshpoint(<<c>>, <<0>>, <<0>>)
        ne == to_meshpoint(<<c>>, <<MULT_DEN>>, <<MULT_DEN>>)
    IN  /\ sw.tag = "Ok" /\ ne.tag = "Ok"
        /\ sw.val[1][1] <= la /\ la < ne.val[1][1]
        /\ sw.val[2][1] <= lo /\ lo < ne.val[2][1]

\* C3 (as claimed): every code encoded from a point of the valid domain, at
\* any level L, has inferred level L and decodes to a rectangle that contains
\* the point.
C3_RoundTrip ==
    SinglePointDone =>
        /\ result.tag = "Ok"
        /\ to_meshlevel(<<result.val[1].value>>) = Ok(<<level>>)
        /\ RectangleContains(result.val[1].value, lat[1], lon[1])

\* index, among k per parent edge, of the cell of x when the Lv1 edge is cut
\* into n cells
CellIndex(x, n, k) == (x \div (UNIT_LAT_LV1 \div n)) % k

\* the quadrant digit 2 * north + east + 1 of the point in the cell halved at
\* n cells per Lv1 edge
QuadrantDigit(la, lo, n) ==
    2 * CellIndex(la, n, 2) + CellIndex(lo - LON_MIN, n, 2) + 1

\* the digits that the claim appends for each level
RECURSIVE NestedDigits(_, _, _)
NestedDigits(l, la, lo) ==
    LET x == lo - LON_MIN
        ab == la \div UNIT_LAT_LV1
        cd == x \div UNIT_LON_LV1
    IN  CASE l = "Lv1"  -> PadDigits(ab * 100 + cd, 4)
          [] l = "X40"  -> NestedDigits("Lv1", la, lo) \o <<QuadrantDigit(la, lo, 2)>>
          [] l = "X20"  -> NestedDigits("X40", la, lo) \o <<QuadrantDigit(la, lo, 4), 5>>
          [] l = "X16"  -> NestedDigits("Lv1", la, lo)
                               \o <<2 * CellIndex(la, 5, 5), 2 * CellIndex(x, 5, 5), 7>>
          [] l = "Lv2"  -> NestedDigits("Lv1", la, lo)
                               \o <<CellIndex(la, 8, 8), CellIndex(x, 8, 8)>>
          [] l = "X8"   -> NestedDigits("Lv1", la, lo)
                               \o <<CellIndex(la, 10, 10), CellIndex(x, 10, 10), 6>>
          [] l = "X5"   -> NestedDigits("Lv2", la, lo) \o <<QuadrantDigit(la, lo, 16)>>
          [] l = "X4"   -> NestedDigits("X8", la, lo) \o <<QuadrantDigit(la, lo, 20), 7>>
          [] l = "X2_5" -> NestedDigits("X5", la, lo) \o <<QuadrantDigit(la, lo, 32), 6>>
          [] l = "X2"   -> NestedDigits("Lv2", la, lo)
                               \o <<2 * CellIndex(la, 40, 5), 2 * CellIndex(x, 40, 5), 5>>
          [] l = "Lv3"  -> NestedDigits("Lv2", la, lo)
                               \o <<CellIndex(la, 80, 10), CellIndex(x, 80, 10)>>
          [] l = "Lv4"  -> NestedDigits("Lv3", la, lo) \o <<QuadrantDigit(la, lo, 160)>>
          [] l = "Lv5"  -> NestedDigits("Lv4", la, lo) \o <<QuadrantDigit(la, lo, 320)>>
          [] l = "Lv6"  -> NestedDigits("Lv5", la, lo) \o <<QuadrantDigit(la, lo, 640)>>

\* a digit sequence without its leading zeros (<<0>> for zero)
RECURSIVE StripZeros(_)
StripZeros(ds) ==
    IF Len(ds) > 1 /\ ds[1] = 0 THEN StripZeros(Tail(ds)) ELSE ds

OutsideLats == {lat[i] : i \in {j \in 1..Len(lat) : lat[j] < LAT_MIN \/ lat[j] >= LAT_MAX}}

OutsideLons == {lon[i] : i \in {j \in 1..Len(lon) : lon[j] < LON_MIN \/ lon[j] >= LON_MAX}}

\* C6: to_meshcode returns an error exactly when some latitude is outside
\* [0, 66.66) or some longitude outside [100, 180); the error names an
\* offending value and no code is returned; 0 and 100 are accepted, 66.66 and
\* 180 rejected; one offending element anywhere in the lists is enough,
\* whatever the other elements and the lengths are.
C6_BoundsErrors ==
    EncodeDone =>
        /\ (result.tag = "Err") <=> (OutsideLats # {} \/ OutsideLons # {})
        /\ result.tag = "Err" =>
               /\ result.val = <<>>
               /\ \/ \E v \in OutsideLats : result.err = LatitudeOutOfBounds(v)
                  \/ \E v \in OutsideLons : result.err = LongitudeOutOfBounds(v)
        /\ (lat = <<LatGrid(0, 0)>> /\ lon = <<LonGrid(100, 0)>>) => result.tag = "Ok"
        /\ (\E i \in 1..Len(lat) : lat[i] = LatGrid(66, 660000)) => result.tag = "Err"
        /\ (\E i \in 1..Len(lon) : lon[i] = LonGrid(180, 0)) => result.tag = "Err"

\* latitude 66.66 with a valid longitude was refused with LatitudeOutOfBounds(66.66)
C6_Witness ==
    /\ EncodeDone
    /\ lat = <<LatGrid(66, 660000)>>
    /\ lon = <<TOKYO_LON>>
    /\ result = Err(LatitudeOutOfBounds(LatGrid(66, 660000)))

\* the lists are non-empty, in the domain, and of equal length or one of length 1
Broadcastable ==
    /\ Len(lat) >= 1 /\ Len(lon) >= 1
    /\ OutsideLats = {} /\ OutsideLons = {}
    /\ Len(lat) = Len(lon) \/ Len(lat) = 1 \/ Len(lon) = 1

\* element i of a list, or its only element
Broadcast(xs, i) == IF Len(xs) = 1 THEN xs[1] ELSE xs[i]

\* C7: for broadcastable lists the batched call returns N = max length codes,
\* and code i is the code of the single call on (lat[i], lon[i]), the only
\* value of a length-1 list being reused.
C7_Broadcast ==
    (EncodeDone /\ Broadcastable) =>
        /\ result.tag = "Ok"
        /\ Len(result.val) = Max(Len(lat), Len(lon))
        /\ \A i \in 1..Len(result.val) :
               to_meshcode(<<Broadcast(lat, i)>>, <<Broadcast(lon, i)>>, level)
                   = Ok(<<result.val[i]>>)

\* two latitudes against one longitude gave two different codes
C7_Witness ==
    /\ EncodeDone
    /\ lat = <<TOKYO_LAT, KYOTO_LAT>>
    /\ lon = <<TOKYO_LON>>
    /\ result.tag = "Ok"
    /\ Len(result.val) = 2
    /\ result.val[1] # result.val[2]

\* C8 (as claimed): every call ends with Ok or with a bounds error, whatever
\* the lengths of the two lists are.
C8_NeverAborts == EncodeDone => result.tag \in {"Ok", "Err"}

-----------------------------------------------------------------------------
(* the decoder on lists of codes and multipliers *)

\* pairs of multipliers: (0, 0), (0.5, 0.5), (1, 1), (1.5, -1), (-1, 0.5), (0, 1)
MultPairs ==
    {<<0, 0>>, <<HALF, HALF>>, <<ONE, ONE>>, <<ONE + HALF, -ONE>>, <<-ONE, HALF>>,
     <<0, ONE>>}

TokyoCodes == {meshcode_at(l, TOKYO_LAT, TOKYO_LON).value : l \in MeshLevel}

PointCodes == LevelCodes \cup TokyoCodes

PointBatchCodes == {ZERO, U64(5339), MulAdd(U64(53393599), 1000, 212)}

BatchMults == {0, HALF}

DecodeInputs ==
    {<<<<c>>, <<m[1]>>, <<m[2]>>>> : c \in PointCodes, m \in MultPairs}
        \cup (SeqsOf(PointBatchCodes, MaxBatch) \X SeqsOf(BatchMults, MaxBatch)
                  \X SeqsOf(BatchMults, MaxBatch))

InitDecode ==
    /\ pc = "call"
    /\ op = "to_meshpoint"
    /\ \E in \in DecodeInputs :
           meshcode = in[1] /\ lat_multiplier = in[2] /\ lon_multiplier = in[3]
    /\ lat = <<>>
    /\ lon = <<>>
    /\ level = "Lv1"
    /\ result = NoResult
    /\ self = NoCode

CallToMeshpoint ==
    /\ pc = "call"
    /\ op = "to_meshpoint"
    /\ result' = to_meshpoint(meshcode, lat_multiplier, lon_multiplier)
    /\ pc' = "done"
    /\ UNCHANGED <<op, meshcode, lat, lon, level, lat_multiplier, lon_multiplier, self>>

NextDecode == CallToMeshpoint

SpecDecode == InitDecode /\ [][NextDecode]_vars

DecodeDone == pc = "done" /\ op = "to_meshpoint"

\* one code was decoded with one pair of multipliers
SingleDecodeDone ==
    DecodeDone /\ Len(meshcode) = 1 /\ Len(lat_multiplier) = 1 /\ Len(lon_multiplier) = 1

\* C9: for a code of inferred level L the decoded point is the decode with
\* multipliers (0, 0) plus (m_lat * unit_lat(L), m_lon * unit_lon(L)), for
\* multipliers inside and outside [0, 1]; (1, 1) is one unit cell away from
\* (0, 0) and (0.5, 0.5) half a cell.
C9_MultipliersLinear ==
    (SingleDecodeDone /\ to_meshlevel(meshcode).tag = "Ok") =>
        LET l == TableLevel(DecimalDigits(meshcode[1]))
            sw == to_meshpoint(meshcode, <<0>>, <<0>>)
        IN  /\ result.tag = "Ok"
            /\ sw.tag = "Ok"
            /\ MULT_DEN * (result.val[1][1] - sw.val[1][1])
                   = lat_multiplier[1] * unit_lat(l)
            /\ MULT_DEN * (result.val[2][1] - sw.val[2][1])
                   = lon_multiplier[1] * unit_lon(l)
            /\ (lat_multiplier[1] = MULT_DEN /\ lon_multiplier[1] = MULT_DEN) =>
                   /\ result.val[1][1] = sw.val[1][1] + unit_lat(l)
                   /\ result.val[2][1] = sw.val[2][1] + unit_lon(l)

\* the Lv6 code of Tokyo was decoded with multipliers (1.5, -1.0)
C9_Witness ==
    /\ SingleDecodeDone
    /\ meshcode = <<meshcode_lv6(TOKYO_LAT, TOKYO_LON).value>>
    /\ lat_multiplier = <<ONE + HALF>> /\ lon_multiplier = <<-ONE>>
    /\ result.tag = "Ok"
    /\ result.val[1][1] > TOKYO_LAT
    /\ result.val[2][1] < TOKYO_LON

\* C10: with non-empty multiplier lists, to_meshpoint returns an error exactly
\* when to_meshlevel does on the same codes, and then the same error; when
\* the levels are inferred it returns one coordinate per code, whatever the
\* other digits of the codes are.
C10_DecodeErrors ==
    (DecodeDone /\ Len(lat_multiplier) >= 1 /\ Len(lon_multiplier) >= 1) =>
        LET lv == to_meshlevel(meshcode)
        IN  /\ (result.tag = "Err") <=> (lv.tag = "Err")
            /\ lv.tag = "Err" => result = lv
            /\ lv.tag = "Ok" =>
                   /\ result.tag = "Ok"
                   /\ Len(result.val[1]) = Len(meshcode)
                   /\ Len(result.val[2]) = Len(meshcode)

\* the six-digit code 599999, whose Lv2 digits are 9 and 9, was decoded
C10_Witness ==
    /\ DecodeDone
    /\ meshcode = <<U64(599999)>>
    /\ lat_multiplier = <<0>> /\ lon_multiplier = <<0>>
    /\ result.tag = "Ok"
    /\ result.val[1][1] = 59 * UNIT_LAT_LV1 + 9 * UNIT_LAT_LV2

-----------------------------------------------------------------------------
(* the life of a MeshCode: built by try_from or by the encoder, then coarsened *)

CodeLats ==
    {ab * UNIT_LAT_LV1 + o : ab \in LatRows, o \in {0, 4845}} \cup {TOKYO_LAT}

CodeLons ==
    {LON_MIN + cd * UNIT_LON_LV1 + o : cd \in {0, 39}, o \in {0, 4845}} \cup {TOKYO_LON}

InitCode ==
    /\ pc = "new"
    /\ op = "none"
    /\ meshcode = <<>>
    /\ lat = <<>>
    /\ lon = <<>>
    /\ level = "Lv1"
    /\ lat_multiplier = <<>>
    /\ lon_multiplier = <<>>
    /\ result = NoResult
    /\ self = NoCode

\* MeshCode::try_from(value)
TryFrom ==
    /\ pc = "new"
    /\ \E value \in LevelCodes :
           /\ meshcode' = <<value>>
           /\ result' = try_from(value)
           /\ self' = IF try_from(value).tag = "Ok" THEN try_from(value).val ELSE self
           /\ pc' = IF try_from(value).tag = "Ok" THEN "built" ELSE "failed"
    /\ op' = "try_from"
    /\ UNCHANGED <<lat, lon, level, lat_multiplier, lon_multiplier>>

\* to_meshcode(&[la], &[lo], l) on a point of the valid domain
Encode ==
    /\ pc = "new"
    /\ \E la \in {x \in CodeLats : lat_in_bounds(x)}, lo \in CodeLons, l \in MeshLevel :
           /\ lat' = <<la>>
           /\ lon' = <<lo>>
           /\ level' = l
           /\ result' = to_meshcode(<<la>>, <<lo>>, l)
           /\ self' = to_meshcode(<<la>>, <<lo>>, l).val[1]
    /\ op' = "to_meshcode"
    /\ pc' = "built"
    /\ UNCHANGED <<meshcode, lat_multiplier, lon_multiplier>>

\* self.lower_level(l); the MeshCode it returns becomes the current one
LowerLevel ==
    /\ pc = "built"
    /\ \E l \in MeshLevel :
           /\ level' = l
           /\ result' = lower_level(self, l)
           /\ self' = IF lower_level(self, l).tag = "Ok" THEN lower_level(self, l).val
                      ELSE self
    /\ op' = "lower_level"
    /\ lat' = <<>>
    /\ lon' = <<>>
    /\ UNCHANGED <<pc, meshcode, lat_multiplier, lon_multiplier>>

\* the state after self.point returned r
PointReturns(r) ==
    /\ result' = r
    /\ lat' = IF r.tag = "Ok" THEN <<r.val[1]>> ELSE <<>>
    /\ lon' = IF r.tag = "Ok" THEN <<r.val[2]>> ELSE <<>>
    /\ pc' = IF r.tag = "Ok" THEN "pointed" ELSE "failed"

\* self.point(0.5, 0.5): the centre of the cell of the current MeshCode
Point ==
    /\ pc = "built"
    /\ PointReturns(point(self, HALF, HALF))
    /\ lat_multiplier' = <<HALF>>
    /\ lon_multiplier' = <<HALF>>
    /\ op' = "point"
    /\ UNCHANGED <<meshcode, level, self>>

\* to_meshcode on the point that self.point returned, at the level of self
EncodePoint ==
    /\ pc = "pointed"
    /\ level' = self.level
    /\ result' = to_meshcode(lat, lon, self.level)
    /\ op' = "to_meshcode"
    /\ pc' = "reencoded"
    /\ UNCHANGED <<meshcode, lat, lon, lat_multiplier, lon_multiplier, self>>

NextCode == TryFrom \/ Encode \/ LowerLevel \/ Point \/ EncodePoint

SpecCode == InitCode /\ [][NextCode]_vars

\* C4 (as claimed): every MeshCode obtained by try_from, by the encoder on the
\* valid domain or by lower_level has a value of 4 to 11 decimal digits whose
\* inferred level is its level field.
C4_CodeInvariant ==
    pc = "built" =>
        /\ Len(DecimalDigits(self.value)) \in 4..11
        /\ to_meshlevel(<<self.value>>) = Ok(<<self.level>>)

-----------------------------------------------------------------------------
(* the decoder on lists: C11 *)

\* the three lists are non-empty, every one of length 1 or of the longest
\* length, and every code has a level
DecodeBroadcastable ==
    LET n == Max(Len(meshcode), Max(Len(lat_multiplier), Len(lon_multiplier)))
    IN  /\ Len(meshcode) \in {1, n}
        /\ Len(lat_multiplier) \in {1, n}
        /\ Len(lon_multiplier) \in {1, n}
        /\ to_meshlevel(meshcode).tag = "Ok"

\* C11 (as claimed): when the code list and the two multiplier lists each
\* have length 1 or N, to_meshpoint returns N points, and point i is the
\* decode of (code[i or 1], lat_multiplier[i or 1], lon_multiplier[i or 1]):
\* a list of length 1, the code list too, is reused for every i.
C11_DecodeBroadcast ==
    (DecodeDone /\ DecodeBroadcastable) =>
        LET n == Max(Len(meshcode), Max(Len(lat_multiplier), Len(lon_multiplier)))
        IN  /\ result.tag = "Ok"
            /\ Len(result.val[1]) = n
            /\ Len(result.val[2]) = n
            /\ \A i \in 1..n :
                   LET one == to_meshpoint(<<Broadcast(meshcode, i)>>,
                                           <<Broadcast(lat_multiplier, i)>>,
                                           <<Broadcast(lon_multiplier, i)>>)
                   IN  /\ one.tag = "Ok"
                       /\ result.val[1][i] = one.val[1][1]
                       /\ result.val[2][i] = one.val[2][1]

\* the part of C11 that the code has: one point per code, point i decoded
\* with the multipliers of index i, or with the last ones of a shorter list
C11_PerCode ==
    (DecodeDone /\ DecodeBroadcastable) =>
        /\ result.tag = "Ok"
        /\ Len(result.val[1]) = Len(meshcode)
        /\ \A i \in 1..Len(meshcode) :
               LET one == to_meshpoint(<<meshcode[i]>>,
                                       <<lat_multiplier[Min(i, Len(lat_multiplier))]>>,
                                       <<lon_multiplier[Min(i, Len(lon_multiplier))]>>)
               IN  /\ result.val[1][i] = one.val[1][1]
                   /\ result.val[2][i] = one.val[2][1]

-----------------------------------------------------------------------------
(* MeshCode::contains and MeshCode::intersects *)

\* contains that takes a failed lower_level for a match
contains_on_error(mc, code) ==
    IF mc.level = code.level THEN mc.value = code.value
    ELSE IF LevelGt(mc.level, code.level) THEN FALSE
    ELSE LET parent_code == lower_level(code, mc.level)
         IN  IF parent_code.tag = "Ok" THEN mc.value = parent_code.val.value
             ELSE TRUE

contains(mc, code) ==
    IF mc.level = code.level THEN mc.value = code.value
    ELSE IF LevelGt(mc.level, code.level) THEN FALSE
    ELSE LET parent_code == lower_level(code, mc.level)
         IN  IF parent_code.tag = "Ok" THEN mc.value = parent_code.val.value
             ELSE FALSE

\* intersects that asks the receiver only
intersects_one_way(mc, other) == contains(mc, other)

intersects(mc, other) ==
    IF LevelLt(mc.level, other.level) THEN contains(mc, other)
    ELSE contains(other, mc)

-----------------------------------------------------------------------------
(* the operations of one MeshCode on a level or on another MeshCode *)

\* a point of the Lv1 cell next to Tokyo's on the east, and the south-west
\* corner of the coordinate domain
NEAR_LAT == TOKYO_LAT
NEAR_LON == TOKYO_LON + UNIT_LON_LV1

RelPoints ==
    {<<TOKYO_LAT, TOKYO_LON>>, <<TOKYO_LAT + UNIT_LAT_LV3, TOKYO_LON>>,
     <<NEAR_LAT, NEAR_LON>>, <<LAT_MIN, LON_MIN>>,
     <<5 * UNIT_LAT_LV1 + 4845, LON_MIN + 39 * UNIT_LON_LV1 + 4845>>}

\* the MeshCodes try_from gives
TryFromCodes ==
    {try_from(v).val : v \in {U64(5339), U64(5340), U64(533900),
                              U64(533911), U64(599999), U64(53393599)}}

\* the MeshCodes the encoder and try_from give
RelCodes ==
    {meshcode_at(l, p[1], p[2]) : l \in MeshLevel, p \in RelPoints} \cup TryFromCodes

\* lat, lon hold the point a receiver of lower_level was encoded from
InitRel ==
    /\ pc = "call"
    /\ \/ /\ op = "lower_level"
          /\ meshcode = <<>>
          /\ level \in MeshLevel
          /\ \/ \E l \in MeshLevel, p \in RelPoints :
                    /\ self = meshcode_at(l, p[1], p[2])
                    /\ lat = <<p[1]>>
                    /\ lon = <<p[2]>>
             \/ /\ self \in TryFromCodes
                /\ lat = <<>>
                /\ lon = <<>>
       \/ /\ op \in {"contains", "intersects"}
          /\ self \in RelCodes
          /\ \E code \in RelCodes : meshcode = <<code.value>> /\ level = code.level
          /\ lat = <<>>
          /\ lon = <<>>
    /\ lat_multiplier = <<>>
    /\ lon_multiplier = <<>>
    /\ result = NoResult

\* the argument of contains and of intersects
Other == Code(meshcode[1], level)

\* self.lower_level(level)
CallLowerLevel ==
    /\ pc = "call"
    /\ op = "lower_level"
    /\ result' = lower_level(self, level)
    /\ pc' = "done"
    /\ UNCHANGED <<op, meshcode, lat, lon, level, lat_multiplier, lon_multiplier, self>>

\* self.contains(&other)
CallContains ==
    /\ pc = "call"
    /\ op = "contains"
    /\ result' = Ok(contains(self, Other))
    /\ pc' = "done"
    /\ UNCHANGED <<op, meshcode, lat, lon, level, lat_multiplier, lon_multiplier, self>>

\* self.intersects(&other)
CallIntersects ==
    /\ pc = "call"
    /\ op = "intersects"
    /\ result' = Ok(intersects(self, Other))
    /\ pc' = "done"
    /\ UNCHANGED <<op, meshcode, lat, lon, level, lat_multiplier, lon_multiplier, self>>

NextRel == CallLowerLevel \/ CallContains \/ CallIntersects

SpecRel == InitRel /\ [][NextRel]_vars

-----------------------------------------------------------------------------
(* lower_level: C12, C13 *)

LowerLevelDone == pc = "done" /\ op = "lower_level"

\* the pure chain: the pairs (source, target) that lower_level converts
PureChain == {<<"Lv3", "Lv2">>, <<"Lv2", "Lv1">>, <<"Lv3", "Lv1">>}

\* C12: lower_level succeeds exactly for the identity and the pure chain;
\* lower_level(c, c.level) is c unchanged at every level, Lv3 -> Lv2 and
\* Lv2 -> Lv1 give value / 100, Lv3 -> Lv1 gives value / 10000 (integer
\* division), and a result always carries the target level.
C12_LowerLevelChain ==
    LowerLevelDone =>
        /\ (result.tag = "Ok") <=>
               (level = self.level \/ <<self.level, level>> \in PureChain)
        /\ result.tag \in {"Ok", "Err"}
        /\ level = self.level => result = Ok(self)
        /\ <<self.level, level>> \in {<<"Lv3", "Lv2">>, <<"Lv2", "Lv1">>} =>
               result = Ok(Code(U64(ToInt(self.value) \div 100), level))
        /\ <<self.level, level>> = <<"Lv3", "Lv1">> =>
               result = Ok(Code(U64(ToInt(self.value) \div 10000), level))
        /\ result.tag = "Ok" => result.val.level = level

\* the Lv3 code 53393599 was lowered to Lv1 and gave 5339
C12_Witness ==
    /\ LowerLevelDone
    /\ self = Code(U64(53393599), "Lv3")
    /\ level = "Lv1"
    /\ result = Ok(Code(U64(5339), "Lv1"))

\* the nesting order of the levels, coarsest first
NestingOrder ==
    <<"Lv1", "X40", "X20", "X16", "Lv2", "X8", "X5", "X4", "X2_5", "X2",
      "Lv3", "Lv4", "Lv5", "Lv6">>

NestingRank(l) == CHOOSE i \in 1..Len(NestingOrder) : NestingOrder[i] = l

\* a is a finer level than b in the nesting order
Finer(a, b) == NestingRank(a) > NestingRank(b)

\* C13 (as claimed): over all pairs (source level, target level) lower_level
\* fails with InvalidMeshLevelForLowerLevel(source, target) exactly when the
\* target is finer than the source in the nesting order, and with
\* UnsupportedMeshLevelConversion(source, target) for every other pair that
\* is neither the identity nor of the pure chain.
C13_LowerLevelErrors ==
    LowerLevelDone =>
        /\ (result = Err(InvalidMeshLevelForLowerLevel(self.level, level)))
               <=> Finer(level, self.level)
        /\ (result = Err(UnsupportedMeshLevelConversion(self.level, level)))
               <=> /\ ~Finer(level, self.level)
                   /\ level # self.level
                   /\ <<self.level, level>> \notin PureChain

\* what the code does: Invalid exactly when the target's discriminant is the
\* greater one, Unsupported for the other pairs outside identity and chain
C13_ByDiscriminant ==
    LowerLevelDone =>
        /\ (result = Err(InvalidMeshLevelForLowerLevel(self.level, level)))
               <=> Discriminant(level) > Discriminant(self.level)
        /\ (result = Err(UnsupportedMeshLevelConversion(self.level, level)))
               <=> /\ Discriminant(level) < Discriminant(self.level)
                   /\ <<self.level, level>> \notin PureChain

-----------------------------------------------------------------------------
(* the order of the levels: C14 *)

\* a call of SpecRel has compared the level of self with the level it was given
LevelsCompared == pc = "done" /\ op \in {"lower_level", "contains", "intersects"}

\* C14 (as claimed): the order that the comparison operators use on MeshLevel
\* is the nesting order, coarsest first: a < b exactly when a comes before b
\* in Lv1, X40, X20, X16, Lv2, X8, X5, X4, X2_5, X2, Lv3, Lv4, Lv5, Lv6, which
\* is exactly when the unit cell of a is larger than that of b.
C14_LevelOrder ==
    LevelsCompared =>
        /\ LevelLt(self.level, level) <=> NestingRank(self.level) < NestingRank(level)
        /\ LevelGt(self.level, level) <=> NestingRank(self.level) > NestingRank(level)
        /\ LevelLt(self.level, level) <=> unit_lat(self.level) > unit_lat(level)
        /\ LevelLt(self.level, level) <=> unit_lon(self.level) > unit_lon(level)

\* the two orders that C14 equates do agree with each other: the nesting
\* order is the order of decreasing unit cells
C14_NestingIsBySize ==
    LevelsCompared =>
        /\ Finer(level, self.level) <=> unit_lat(self.level) > unit_lat(level)
        /\ Finer(level, self.level) <=> unit_lon(self.level) > unit_lon(level)

-----------------------------------------------------------------------------
(* contains and intersects: C15, C16 *)

ContainsDone == pc = "done" /\ op = "contains"

IntersectsDone == pc = "done" /\ op = "intersects"

\* C15: a.contains(b) is (a.value = b.value) when the levels are equal, false
\* when a is finer than b, and when a is coarser than b true exactly when
\* b.lower_level(a.level) succeeds with a's value; so across levels it is
\* true only for (Lv1, Lv2), (Lv2, Lv3), (Lv1, Lv3) with b's leading digits
\* equal to a's value, and false whenever a multiplier level is involved.
C15_Contains ==
    ContainsDone =>
        LET a == self
            b == Other
            parent == lower_level(b, a.level)
        IN  /\ result.tag = "Ok"
            /\ result.val \in BOOLEAN
            /\ a.level = b.level => (result.val <=> a.value = b.value)
            /\ Finer(a.level, b.level) => ~result.val
            /\ Finer(b.level, a.level) =>
                   (result.val <=> (parent.tag = "Ok" /\ parent.val.value = a.value))
            /\ (a.level # b.level /\ result.val) =>
                   /\ <<b.level, a.level>> \in PureChain
                   /\ a.value = U64(ToInt(b.value) \div
                                    (IF <<b.level, a.level>> = <<"Lv3", "Lv1">>
                                     THEN 10000 ELSE 100))

\* the Lv1 code 5339 was asked whether it contains the Lv3 code 53393599: yes
C15_Witness ==
    /\ ContainsDone
    /\ self = Code(U64(5339), "Lv1")
    /\ Other = Code(U64(53393599), "Lv3")
    /\ result = Ok(TRUE)

\* C16: a.intersects(b) is a.contains(b) or b.contains(a), and it is
\* symmetric: a.intersects(b) = b.intersects(a).
C16_Intersects ==
    IntersectsDone =>
        /\ result.tag = "Ok"
        /\ result.val <=> (contains(self, Other) \/ contains(Other, self))
        /\ result.val <=> intersects(Other, self)

\* the Lv3 code 53393599 was asked whether it intersects the Lv1 code 5339,
\* which contains it: yes
C16_Witness ==
    /\ IntersectsDone
    /\ self = Code(U64(53393599), "Lv3")
    /\ Other = Code(U64(5339), "Lv1")
    /\ ~contains(self, Other)
    /\ result = Ok(TRUE)

-----------------------------------------------------------------------------
(* level inference of a batch: C20 *)

\* the indices of the codes of the batch that have no level on their own
InvalidElements == {idx \in 1..Len(meshcode) : to_meshlevel(<<meshcode[idx]>>).tag = "Err"}

\* C20 (as claimed): for a batch with invalid elements to_meshlevel returns
\* no levels, and its error is the one that the invalid element of the lowest
\* index gives when it is inferred on its own.
C20_BatchFailFast ==
    (pc = "done" /\ op = "to_meshlevel" /\ InvalidElements # {}) =>
        /\ result.tag = "Err"
        /\ result.val = <<>>
        /\ result = to_meshlevel(<<meshcode[MinOf(InvalidElements)]>>)

\* what the code does: a zero anywhere in the batch is reported first, and
\* without a zero the error is that of the first invalid element
C20_ZeroFirst ==
    (pc = "done" /\ op = "to_meshlevel" /\ InvalidElements # {}) =>
        /\ result.tag = "Err"
        /\ result.val = <<>>
        /\ (\E idx \in 1..Len(meshcode) : meshcode[idx] = ZERO) =>
               result = Err(UnknownMeshLevelForCode(ZERO))
        /\ (\A idx \in 1..Len(meshcode) : meshcode[idx] # ZERO) =>
               result = to_meshlevel(<<meshcode[MinOf(InvalidElements)]>>)

-----------------------------------------------------------------------------
(* envelope.rs *)

MismatchedMeshLevels(a, b) == <<"MismatchedMeshLevels", a, b>>

\* the count of the absolute distance: ((x).abs() / u).ceil() as usize
CeilCount_abs(x, u) == IF x = 0 THEN 0 ELSE ((IF x < 0 THEN -x ELSE x) + u - 1) \div u

\* (x / u).ceil() as usize: the cast gives 0 for a negative value
CeilCount(x, u) == IF x <= 0 THEN 0 ELSE (x + u - 1) \div u

make_envelope(lat_s, lon_w, lat_n, lon_e, l) ==
    LET to_unit_lat == unit_lat(l)
        to_unit_lon == unit_lon(l)
        lat_count == CeilCount(lat_n - lat_s, to_unit_lat)
        lon_count == CeilCount(lon_e - lon_w, to_unit_lon)
        point_count == lat_count * lon_count
        lats == [n \in 1..point_count |-> lat_s + ((n - 1) \div lon_count) * to_unit_lat]
        lons == [n \in 1..point_count |-> lon_w + ((n - 1) % lon_count) * to_unit_lon]
    IN  to_meshcode(lats, lons, l)

\* the end of to_envelope and of to_intersects: the `?` on each of the two
\* decodes, then make_envelope from (lat_s, lon_w) to (lat_n, lon_e)
envelope_between(points_sw, points_ne, l) ==
    IF points_sw.tag # "Ok" THEN points_sw
    ELSE IF points_ne.tag # "Ok" THEN points_ne
    ELSE make_envelope(points_sw.val[1][1], points_sw.val[2][1],
                       points_ne.val[1][1], points_ne.val[2][1], l)

\* envelope_between with the comparison of the levels after the two `?`
envelope_between_levels(points_sw, points_ne, meshcode_sw, meshcode_ne) ==
    IF points_sw.tag # "Ok" THEN points_sw
    ELSE IF points_ne.tag # "Ok" THEN points_ne
    ELSE IF meshcode_sw.level # meshcode_ne.level
    THEN Err(MismatchedMeshLevels(meshcode_sw.level, meshcode_ne.level))
    ELSE make_envelope(points_sw.val[1][1], points_sw.val[2][1],
                       points_ne.val[1][1], points_ne.val[2][1], meshcode_sw.level)

\* to_envelope that compares the levels after the two decodes
to_envelope_decode_first(meshcode_sw, meshcode_ne) ==
    envelope_between_levels(to_meshpoint(<<meshcode_sw.value>>, <<HALF>>, <<HALF>>),
                            to_meshpoint(<<meshcode_ne.value>>, <<ONE>>, <<ONE>>),
                            meshcode_sw, meshcode_ne)

to_envelope(meshcode_sw, meshcode_ne) ==
    IF meshcode_sw.level # meshcode_ne.level
    THEN Err(MismatchedMeshLevels(meshcode_sw.level, meshcode_ne.level))
    ELSE envelope_between(to_meshpoint(<<meshcode_sw.value>>, <<HALF>>, <<HALF>>),
                          to_meshpoint(<<meshcode_ne.value>>, <<ONE>>, <<ONE>>),
                          meshcode_sw.level)

\* (to_unit / from_unit) / 2.0 when the target unit is not the larger, else 0.5
margin(to_unit, from_unit) ==
    IF to_unit <= from_unit THEN ((to_unit * MULT_DEN) \div from_unit) \div 2
    ELSE HALF

to_intersects(mc, to_level) ==
    envelope_between(
        to_meshpoint(<<mc.value>>, <<margin(unit_lat(to_level), unit_lat(mc.level))>>,
                     <<margin(unit_lon(to_level), unit_lon(mc.level))>>),
        to_meshpoint(<<mc.value>>, <<ONE>>, <<ONE>>),
        to_level)

-----------------------------------------------------------------------------
(* to_envelope and to_intersects on MeshCodes of the encoder *)

\* the most cells per axis of an envelope
MaxSide == 10

\* the corner where the Lv1 cells 5339, 5340, 5439 and 5440 meet
BASE_LAT == 54 * UNIT_LAT_LV1
BASE_LON == LON_MIN + 40 * UNIT_LON_LV1

\* the centre of the cell of level l that lies i rows and j columns from (la, lo)
CellCentre(l, la, lo, i, j) ==
    <<la + i * unit_lat(l) + unit_lat(l) \div 2, lo + j * unit_lon(l) + unit_lon(l) \div 2>>

\* the cells around the corner of the four Lv1 cells
BaseCells(l) == {CellCentre(l, BASE_LAT, BASE_LON, i, j) : i \in -1..1, j \in -1..1}

\* the cells at the south-west corner of the coordinate domain
CornerCells(l) == {CellCentre(l, LAT_MIN, LON_MIN, i, j) : i \in 0..1, j \in 0..1}

\* the first cell of the Lv1 cell of row 5, column 39
SouthCells(l) == {CellCentre(l, 5 * UNIT_LAT_LV1, LON_MIN + 39 * UNIT_LON_LV1, 0, 0)}

\* the last point of the domain to the north-east, and a point of the Lv1 row 5
EdgePoints ==
    {<<LAT_MAX - 1, LON_MAX - 1>>,
     <<5 * UNIT_LAT_LV1 + 3205, LON_MIN + 39 * UNIT_LON_LV1 + 3205>>}

\* <<<<l, p>>, <<l2, q>>>>: to_envelope on the cell of p at level l and of q at level l2
EnvelopeInputs ==
    UNION {(({l} \X BaseCells(l)) \X ({l} \X BaseCells(l)))
               \cup (({l} \X CornerCells(l)) \X ({l} \X CornerCells(l))) : l \in MeshLevel}
        \cup UNION {({l} \X {CellCentre(l, BASE_LAT, BASE_LON, 0, 0),
                              CellCentre(l, LAT_MIN, LON_MIN, 0, 0)})
                       \X ({l2} \X {CellCentre(l2, BASE_LAT, BASE_LON, 0, 0),
                                     CellCentre(l2, LAT_MIN, LON_MIN, 0, 0)}) :
                    l \in MeshLevel, l2 \in MeshLevel}
        \cup {<<<<l, p>>, <<l, p>>>> : l \in MeshLevel, p \in EdgePoints}

\* <<l, p, l2>>: to_intersects on the cell of p at level l with target l2
IntersectsInputs ==
    UNION {{l} \X (BaseCells(l) \cup CornerCells(l) \cup SouthCells(l))
               \X {t \in MeshLevel : unit_lat(l) <= MaxSide * unit_lat(t)} :
           l \in MeshLevel}

InitEnvelope ==
    /\ pc = "call"
    /\ \/ /\ op = "to_envelope"
          /\ \E in \in EnvelopeInputs :
                 /\ self = meshcode_at(in[1][1], in[1][2][1], in[1][2][2])
                 /\ meshcode = <<meshcode_at(in[2][1], in[2][2][1], in[2][2][2]).value>>
                 /\ level = in[2][1]
                 /\ lat = <<in[1][2][1], in[2][2][1]>>
                 /\ lon = <<in[1][2][2], in[2][2][2]>>
       \/ /\ op = "to_intersects"
          /\ \E in \in IntersectsInputs :
                 /\ self = meshcode_at(in[1], in[2][1], in[2][2])
                 /\ meshcode = <<>>
                 /\ level = in[3]
                 /\ lat = <<in[2][1]>>
                 /\ lon = <<in[2][2]>>
    /\ lat_multiplier = <<>>
    /\ lon_multiplier = <<>>
    /\ result = NoResult

\* to_envelope(&self, &Other)
CallToEnvelope ==
    /\ pc = "call"
    /\ op = "to_envelope"
    /\ result' = to_envelope(self, Other)
    /\ pc' = "done"
    /\ UNCHANGED <<op, meshcode, lat, lon, level, lat_multiplier, lon_multiplier, self>>

\* to_intersects(&self, level)
CallToIntersects ==
    /\ pc = "call"
    /\ op = "to_intersects"
    /\ result' = to_intersects(self, level)
    /\ pc' = "done"
    /\ UNCHANGED <<op, meshcode, lat, lon, level, lat_multiplier, lon_multiplier, self>>

NextEnvelope == CallToEnvelope \/ CallToIntersects

SpecEnvelope == InitEnvelope /\ [][NextEnvelope]_vars

-----------------------------------------------------------------------------
(* to_envelope: C17, C18 *)

EnvelopeDone == pc = "done" /\ op = "to_envelope"

\* C17: to_envelope(sw, ne) returns MismatchedMeshLevels(sw.level, ne.level)
\* exactly when the two levels differ; the levels are compared before either
\* code is decoded, so the error is this one whatever the codes are, and it
\* comes with no codes.
C17_MismatchedLevels ==
    EnvelopeDone =>
        /\ (self.level # Other.level) <=>
               result = Err(MismatchedMeshLevels(self.level, Other.level))
        /\ self.level # Other.level => result.val = <<>>
        /\ (result.tag = "Err" /\ result.err[1] = "MismatchedMeshLevels") =>
               self.level # Other.level

\* an Lv1 code that cannot be decoded (its value is 0) and an Lv2 code gave
\* the error of the levels, not one of the decoder
C17_Witness ==
    /\ EnvelopeDone
    /\ self = Code(ZERO, "Lv1")
    /\ to_meshpoint(<<self.value>>, <<HALF>>, <<HALF>>).tag = "Err"
    /\ Other.level = "Lv2"
    /\ result = Err(MismatchedMeshLevels("Lv1", "Lv2"))

\* the south-west corner of the cell of level l that holds (la, lo)
CellCorner(l, la, lo) ==
    <<(la \div unit_lat(l)) * unit_lat(l), (lo \div unit_lon(l)) * unit_lon(l)>>

\* the rows and the columns from the cell of SW to the cell of NE
EnvRows == lat[2] \div unit_lat(level) - lat[1] \div unit_lat(level)

EnvCols == lon[2] \div unit_lon(level) - lon[1] \div unit_lon(level)

\* the centre of the cell of level l that holds (la, lo) is in the domain
CentreInDomain(l, la, lo) ==
    /\ lat_in_bounds(CellCorner(l, la, lo)[1] + unit_lat(l) \div 2)
    /\ lon_in_bounds(CellCorner(l, la, lo)[2] + unit_lon(l) \div 2)

\* both codes have one level, NE lies north and east of SW or on it, and the
\* centres of the cells are in the domain
EnvelopeNorthEast ==
    /\ EnvelopeDone
    /\ self.level = Other.level
    /\ EnvRows >= 0
    /\ EnvCols >= 0
    /\ CentreInDomain(level, lat[1], lon[1])
    /\ CentreInDomain(level, lat[2], lon[2])

\* the rectangle from SW to NE in row-major order
RowMajor ==
    /\ result.tag = "Ok"
    /\ Len(result.val) = (EnvRows + 1) * (EnvCols + 1)
    /\ \A i \in 0..EnvRows, j \in 0..EnvCols :
           result.val[i * (EnvCols + 1) + j + 1]
               = meshcode_at(level, lat[1] + i * unit_lat(level),
                             lon[1] + j * unit_lon(level))
    /\ \A m \in 1..Len(result.val), n \in 1..Len(result.val) :
           m # n => result.val[m] # result.val[n]
    /\ \A m \in 1..Len(result.val) : result.val[m].level = level
    /\ result.val[1] = self
    /\ result.val[Len(result.val)] = Other

\* C18 (as claimed): for two codes of the encoder of one level L, the cell of
\* NE r >= 0 rows north and k >= 0 columns east of the cell of SW, to_envelope
\* returns (r + 1) * (k + 1) pairwise distinct codes of level L in row-major
\* order: element i * (k + 1) + j is the cell i rows north and j columns east
\* of SW, the first is SW and the last is NE.
C18_EnvelopeRowMajor == EnvelopeNorthEast => RowMajor

\* the same for cells from 20/3 degrees of latitude on, where the encoder
\* gives codes of the digits of their level
C18_FromRowTen ==
    (EnvelopeNorthEast /\ lat[1] >= 10 * UNIT_LAT_LV1) => RowMajor

\* a 3 x 3 envelope across the corner of four Lv1 cells was built
C18_Reached ==
    /\ EnvelopeNorthEast
    /\ level = "Lv3"
    /\ EnvRows = 2 /\ EnvCols = 2
    /\ result.tag = "Ok"
    /\ Len(result.val) = 9
    /\ DivPow10(result.val[1].value, 4) = U64(5339)
    /\ DivPow10(result.val[9].value, 4) = U64(5440)

-----------------------------------------------------------------------------
(* to_intersects: C19 *)

ToIntersectsDone == pc = "done" /\ op = "to_intersects"

RECURSIVE GCD(_, _)
GCD(a, b) == IF b = 0 THEN a ELSE GCD(b, a % b)

\* one point of every block of the rectangle of self that the cells of self's
\* level and of the target level do not cut (the borders of both are
\* multiples of the greatest common divisor of the two units)
ExtentPoints ==
    LET sw == CellCorner(self.level, lat[1], lon[1])
        g_lat == GCD(unit_lat(self.level), unit_lat(level))
        g_lon == GCD(unit_lon(self.level), unit_lon(level))
    IN  {<<sw[1] + a * g_lat, sw[2] + b * g_lon>> :
            a \in 0..(unit_lat(self.level) \div g_lat - 1),
            b \in 0..(unit_lon(self.level) \div g_lon - 1)}

\* the returned cells hold every point of the rectangle of self
ExtentCovered ==
    /\ result.tag = "Ok"
    /\ \A p \in ExtentPoints :
           \E n \in 1..Len(result.val) :
               /\ result.val[n].level = level
               /\ result.val[n] = meshcode_at(level, p[1], p[2])

\* C19 (as claimed): for every MeshCode c and every target level T, finer,
\* equal or coarser, the cells that to_intersects(c, T) returns cover the
\* whole rectangle of c: every point of it lies in a returned cell of level T.
C19_IntersectsCovers == ToIntersectsDone => ExtentCovered

\* the same away from the southern rows: it fails there too
C19_FromRowTen ==
    (ToIntersectsDone /\ lat[1] >= 10 * UNIT_LAT_LV1) => ExtentCovered

\* the cells of one of the two levels are unions of cells of the other
Nested(a, b) ==
    \/ unit_lat(a) % unit_lat(b) = 0 /\ unit_lon(a) % unit_lon(b) = 0
    \/ unit_lat(b) % unit_lat(a) = 0 /\ unit_lon(b) % unit_lon(a) = 0

\* what the code has: away from the southern rows the rectangle is covered
\* whenever the units of the two levels divide one another
C19_NestedLevels ==
    (ToIntersectsDone /\ lat[1] >= 10 * UNIT_LAT_LV1 /\ Nested(self.level, level))
        => ExtentCovered

-----------------------------------------------------------------------------
(* the digits of an encoded code: C21, C22 *)

\* the number of decimal digits of a code of level l
LevelDigits(l) ==
    CASE l = "Lv1" -> 4
      [] l = "X40" -> 5
      [] l = "Lv2" -> 6
      [] l \in {"X20", "X16", "X8", "X5"} -> 7
      [] l = "Lv3" -> 8
      [] l \in {"X4", "X2_5", "X2", "Lv4"} -> 9
      [] l = "Lv5" -> 10
      [] l = "Lv6" -> 11

\* a digit sequence padded with zeros on the left to n digits
LeftPad(ds, n) == [q \in 1..(n - Len(ds)) |-> 0] \o ds

\* the positions, among the digits of a code of level l, of its quadrant digits
QuadrantPositions(l) ==
    CASE l = "X40" -> {5}
      [] l = "X20" -> {5, 6}
      [] l = "X5" -> {7}
      [] l = "X4" -> {8}
      [] l = "X2_5" -> {7, 8}
      [] l = "Lv4" -> {9}
      [] l = "Lv5" -> {9, 10}
      [] l = "Lv6" -> {9, 10, 11}
      [] OTHER -> {}

\* C21: for a point of the valid domain and any level, every digit group of
\* the code stays in its decimal slot: ab <= 99 and cd <= 79 are the Lv1 row
\* and column of the point (nothing was carried into them), the Lv2 digits
\* e, f are <= 7, the digits of X16 (e, f) and of X2 (g, h) are even, every
\* quadrant digit is in 1..4, the code has no more digits than its level has,
\* and its value is below 10^11.
C21_DigitGroups ==
    SinglePointDone =>
        LET v == result.val[1].value
            n == LevelDigits(level)
            ds == LeftPad(DecimalDigits(v), n)
            ab == ds[1] * 10 + ds[2]
            cd == ds[3] * 10 + ds[4]
        IN  /\ result.tag = "Ok"
            /\ Len(DecimalDigits(v)) <= n
            /\ v[1] < Pow10(11 - LIMB_DIGITS)
            /\ ab = lat[1] \div UNIT_LAT_LV1 /\ ab <= 99
            /\ cd = (lon[1] - LON_MIN) \div UNIT_LON_LV1 /\ cd <= 79
            /\ level \in {"Lv2", "X5", "X2_5", "X2", "Lv3", "Lv4", "Lv5", "Lv6"} =>
                   ds[5] <= 7 /\ ds[6] <= 7
            /\ level \in {"Lv3", "Lv4", "Lv5", "Lv6"} => ds[7] <= 9 /\ ds[8] <= 9
            /\ level \in {"X8", "X4"} => ds[5] <= 9 /\ ds[6] <= 9
            /\ level = "X16" => ds[5] \in {0, 2, 4, 6, 8} /\ ds[6] \in {0, 2, 4, 6, 8}
            /\ level = "X2" => ds[7] \in {0, 2, 4, 6, 8} /\ ds[8] \in {0, 2, 4, 6, 8}
            /\ \A q \in QuadrantPositions(level) : ds[q] \in 1..4

\* the north-east end of the domain was encoded at Lv6: every group is at
\* its greatest value
C21_Witness ==
    /\ SinglePointDone
    /\ lat[1] = 99 * UNIT_LAT_LV1 + 6335
    /\ lon[1] = LON_MIN + 79 * UNIT_LON_LV1 + 6399
    /\ level = "Lv6"
    /\ result.tag = "Ok"
    /\ DecimalDigits(result.val[1].value) = <<9, 9, 7, 9, 7, 7, 9, 9, 2, 2, 4>>

\* the constant marker that ends the codes of level l (0: none)
MarkerDigit(l) ==
    CASE l \in {"X20", "X2"} -> 5
      [] l \in {"X8", "X2_5"} -> 6
      [] l \in {"X16", "X4"} -> 7
      [] OTHER -> 0

\* the cells per Lv1 edge of a level whose codes end with a quadrant digit
QuadrantCells(l) ==
    CASE l = "X40" -> 2
      [] l = "X5" -> 16
      [] l = "Lv4" -> 160
      [] l = "Lv5" -> 320
      [] l = "Lv6" -> 640
      [] OTHER -> 0

\* C22: the last decimal digit of the code of a point of the valid domain is
\* the digit that level inference reads for the requested level: the marker
\* 5 for X20 and X2, 6 for X8 and X2_5, 7 for X16 and X4, and for X40, X5,
\* Lv4, Lv5, Lv6 the quadrant digit quadrant_lat * 2 + quadrant_lon + 1 of
\* the point, which is in 1..4.
C22_LastDigit ==
    SinglePointDone =>
        LET ds == DecimalDigits(result.val[1].value)
            last == ds[Len(ds)]
        IN  /\ result.tag = "Ok"
            /\ MarkerDigit(level) # 0 => last = MarkerDigit(level)
            /\ QuadrantCells(level) # 0 =>
                   /\ last = QuadrantDigit(lat[1], lon[1], QuadrantCells(level))
                   /\ last \in 1..4

\* Kyoto was encoded at X5 and its code of 7 digits ends with a quadrant digit
C22_Witness ==
    /\ SinglePointDone
    /\ lat[1] = KYOTO_LAT /\ lon[1] = KYOTO_LON
    /\ level = "X5"
    /\ result.tag = "Ok"
    /\ Len(DecimalDigits(result.val[1].value)) = 7
    /\ DecimalDigits(result.val[1].value)[7] \in 1..4
    /\ to_meshlevel(<<result.val[1].value>>) = Ok(<<"X5">>)

-----------------------------------------------------------------------------
(* the envelope of one cell: C23 *)

\* to_envelope was called on one code of the encoder, of 4 digits or more,
\* as both corners
EnvelopeOfOne ==
    /\ EnvelopeDone
    /\ Other = self
    /\ lat[1] = lat[2] /\ lon[1] = lon[2]
    /\ Len(DecimalDigits(self.value)) >= 4

\* C23 (as claimed): for every code c of at least 4 digits that the encoder
\* gives for a point of the valid domain at any level, the cells at the
\* limits of the domain included, to_envelope(c, c) is Ok(<<c>>).
C23_EnvelopeOfOne == EnvelopeOfOne => result = Ok(<<self>>)

\* the same from 20/3 degrees of latitude on: it fails there too
C23_FromRowTen ==
    (EnvelopeOfOne /\ lat[1] >= 10 * UNIT_LAT_LV1) => result = Ok(<<self>>)

\* what the code has: from 20/3 degrees on, a cell whose centre is in the
\* domain is its own envelope
C23_CentreInDomain ==
    (EnvelopeOfOne /\ lat[1] >= 10 * UNIT_LAT_LV1 /\ CentreInDomain(level, lat[1], lon[1]))
        => result = Ok(<<self>>)

-----------------------------------------------------------------------------
(* the round trip from 20/3 degrees of latitude on: C24 *)

\* one point of the valid domain in an Lv1 row of index 10 or more was encoded
NorthPointDone == SinglePointDone /\ lat[1] >= 10 * UNIT_LAT_LV1

-----------------------------------------------------------------------------
(* code -> point -> code: C25 *)

\* the current MeshCode is the one MeshCode::try_from built from meshcode[1]
FromTryFrom == meshcode # <<>> /\ self.value = meshcode[1]

\* C25 (as claimed): for every integer accepted by MeshCode::try_from the
\* centre of its cell exists, and encoding that centre at the inferred level
\* returns the same code: to_meshcode(c.point(0.5, 0.5), c.level) == [c].
C25_CodeRoundTrip ==
    /\ (op = "point" /\ FromTryFrom) => result.tag = "Ok"
    /\ (pc = "reencoded" /\ FromTryFrom) => result = Ok(<<self>>)

\* C25 without the error cases: whenever the centre of an accepted code is
\* encoded without an error, the code comes back
C25_WhenEncoded ==
    (pc = "reencoded" /\ FromTryFrom /\ result.tag = "Ok") => result = Ok(<<self>>)

\* the round trip of the codes that the encoder built from a point of the
\* domain, with the digits of their level, whose cell centre is in the domain
C25_EncoderCodes ==
    (/\ pc = "reencoded"
     /\ meshcode = <<>>
     /\ NumDigits(self.value) = LevelDigits(self.level)
     /\ result.tag = "Ok") => result = Ok(<<self>>)

C25_EncoderCodesReached ==
    /\ pc = "reencoded"
    /\ meshcode = <<>>
    /\ self.level = "Lv6"
    /\ result = Ok(<<self>>)

-----------------------------------------------------------------------------
(* coarsening and encoding: C26 *)

\* lower_level was called, along the pure chain, on the code of the point
\* (lat[1], lon[1])
LowerLevelOfPoint ==
    LowerLevelDone /\ lat # <<>> /\ <<self.level, level>> \in PureChain

\* C26: for every point p of the valid domain, lowering the code of p along
\* the pure chain gives the code of p at the lower level (Lv3 -> Lv2,
\* Lv2 -> Lv1, Lv3 -> Lv1); hence the lower code contains the code, and
\* lowering Lv3 -> Lv2 -> Lv1 gives what lowering Lv3 -> Lv1 gives.
C26_CoarseningCommutes ==
    LowerLevelOfPoint =>
        /\ result = Ok(meshcode_at(level, lat[1], lon[1]))
        /\ contains(meshcode_at(level, lat[1], lon[1]), self)
        /\ <<self.level, level>> = <<"Lv3", "Lv1">> =>
               /\ lower_level(self, "Lv2").tag = "Ok"
               /\ lower_level(lower_level(self, "Lv2").val, "Lv1") = result

\* the Lv3 code of a point of Lv1 row 5 (3.84 N, 139.76 E) was lowered to Lv1
\* and gave the three-digit Lv1 code 539 of that point
C26_Witness ==
    /\ LowerLevelOfPoint
    /\ lat = <<5 * UNIT_LAT_LV1 + 4845>>
    /\ self.level = "Lv3"
    /\ level = "Lv1"
    /\ result = Ok(Code(U64(539), "Lv1"))

-----------------------------------------------------------------------------
(* to_intersects as a refinement: C27 *)

\* the cell of level l that holds (la, lo) lies inside the coordinate domain
CellInDomain(l, la, lo) ==
    /\ CellCorner(l, la, lo)[1] >= LAT_MIN
    /\ CellCorner(l, la, lo)[1] + unit_lat(l) <= LAT_MAX
    /\ CellCorner(l, la, lo)[2] >= LON_MIN
    /\ CellCorner(l, la, lo)[2] + unit_lon(l) <= LON_MAX

\* the cells of level l per edge of a cell of level c: n(l) / n(c)
PerEdge(c, l) == unit_lat(c) \div unit_lat(l)

\* to_intersects was called on a code of 4 or more digits whose cell is in
\* the domain, with a target level whose cells divide the cells of the code
RefinementDone ==
    /\ ToIntersectsDone
    /\ NumDigits(self.value) >= 4
    /\ CellInDomain(self.level, lat[1], lon[1])
    /\ unit_lat(self.level) % unit_lat(level) = 0
    /\ unit_lon(self.level) % unit_lon(level) = 0

\* the cell that the decoder gives for r lies in the rectangle of the cell of
\* level l that holds (la, lo)
CellWithin(sw, ne, l, la, lo) ==
    /\ sw.tag = "Ok"
    /\ ne.tag = "Ok"
    /\ sw.val[1] >= CellCorner(l, la, lo)[1]
    /\ sw.val[2] >= CellCorner(l, la, lo)[2]
    /\ ne.val[1] <= CellCorner(l, la, lo)[1] + unit_lat(l)
    /\ ne.val[2] <= CellCorner(l, la, lo)[2] + unit_lon(l)

\* (n(T) / n(c.level))^2 distinct codes of level T, each in the rectangle of c
Refined ==
    /\ result.tag = "Ok"
    /\ Len(result.val) = PerEdge(self.level, level) * PerEdge(self.level, level)
    /\ Cardinality({result.val[n] : n \in 1..Len(result.val)}) = Len(result.val)
    /\ \A n \in 1..Len(result.val) :
           /\ result.val[n].level = level
           /\ CellWithin(point(result.val[n], 0, 0), point(result.val[n], ONE, ONE),
                         self.level, lat[1], lon[1])

\* C27 (as claimed): for every code c of the encoder of at least 4 digits
\* whose cell lies inside the domain and every target level T with n(c.level)
\* dividing n(T), to_intersects(c, T) returns (n(T) / n(c.level))^2 pairwise
\* distinct codes of level T, each of whose cells lies inside the rectangle
\* of c.
C27_Refinement == RefinementDone => Refined

\* the same for the codes that have the digits of their level (from the Lv1
\* row 10 on)
C27_FullLength ==
    (RefinementDone /\ NumDigits(self.value) = LevelDigits(self.level)) => Refined

\* an Lv2 cell was refined to its 100 Lv3 cells
C27_FullLengthReached ==
    /\ RefinementDone
    /\ self.level = "Lv2"
    /\ level = "Lv3"
    /\ result.tag = "Ok"
    /\ Len(result.val) = 100

-----------------------------------------------------------------------------
(* reversed corners: C28 *)

\* the value of the MeshCode has the level of the MeshCode
ValidCode(mc) == to_meshlevel(<<mc.value>>) = Ok(<<mc.level>>)

\* to_envelope was called on two valid codes of one level, the cell passed as
\* NE at least one row south or one column west of the cell passed as SW
ReversedDone ==
    /\ EnvelopeDone
    /\ self.level = Other.level
    /\ ValidCode(self)
    /\ ValidCode(Other)
    /\ (EnvRows < 0 \/ EnvCols < 0)

\* C28: for two valid codes of the same level where the cell passed as NE
\* lies at least one row south of, or at least one column west of, the cell
\* passed as SW, to_envelope returns Ok with an empty list.
C28_ReversedCorners == ReversedDone => result = Ok(<<>>)

\* the cell passed as NE was one row south and one column east of the cell
\* passed as SW, both Lv3, and the envelope was empty
C28_Witness ==
    /\ ReversedDone
    /\ self.level = "Lv3"
    /\ EnvRows = -1
    /\ EnvCols = 1
    /\ result = Ok(<<>>)

====
